---- MODULE Spec2Model ----
(***************************************************************************)
(* Verification model of the arbitrage bot's core:                         *)
(*   - RiskManager   (circuit breaker, risk metrics)                       *)
(*   - MEVProtection (nonce assignment)                                    *)
(*   - ArbitrageEngine (periodic scan scheduling)                          *)
(*   - BatchQuoteEngine (concurrent quote aggregation)                     *)
(*                                                                         *)
(* Units.  Time is counted in hours (the code counts milliseconds).        *)
(* Money is counted in units of 100 USD, so the default initial capital of *)
(* 10,000 is 100.  Every percentage and every risk-score point is held in  *)
(* hundredths (Pct(15) = 15%); ratios the code computes in floating point  *)
(* are held as exact fractions [n, d] and compared by cross-multiplying.   *)
(***************************************************************************)
EXTENDS Integers, Sequences, FiniteSets, TLC

VARIABLES
  \* ---- RiskManager ----
  now,                 \* Date.now(), in hours
  metrics,             \* this.metrics
  tradeHistory,        \* this.tradeHistory
  circuitBreaker,      \* this.circuitBreaker
  dailyStartValue,     \* this.dailyStartValue
  dailyResetTime,      \* this.dailyResetTime
  riskOp,              \* the RiskManager operation that ran last
  evalResult,          \* what the last evaluateRisk() call returned
  emitted,             \* the events the last operation emitted, in order
  ticks,               \* number of clock advances so far
  \* ---- MEVProtection ----
  nonces,              \* this.nonces.get(wallet.address), 0 when absent
  pendingCount,        \* the chain's pending transaction count of the wallet
  callers,             \* the getSecureNonce() calls: where each one stands
  nonceCalls,          \* getSecureNonce() calls made so far
  \* ---- ArbitrageEngine ----
  isRunning,           \* this.isRunning
  scanInterval,        \* this.scanInterval: a timer id, 0 when undefined
  timers,              \* the interval timers not cleared, with the time left
  scans,               \* the scanForOpportunities() calls in progress
  starts,              \* start() calls that went past the isRunning test
  clock,               \* time passed, in units of 5 seconds
  \* ---- BatchQuoteEngine ----
  quoteCall,           \* the getBatchQuotes() call: idle, pending, returned, raised
  enabledExchanges,    \* the exchanges the call queries
  venues,              \* per exchange: the state of its getQuote promise
  quoteResult,         \* what the call returned
  timeoutFired,        \* the batch timeout rejected the call
  \* ---- ArbitrageEngine: pair analysis ----
  analysis,            \* a performTokenPairAnalysis() call: inputs and result
  \* ---- MEVProtection: gas price ----
  gasPricing,          \* the last gas price MEVProtection set, and from what
  \* ---- ArbitrageEngine: ranking of a scan's opportunities ----
  ranking,             \* what a scan found and what it emitted
  \* ---- MEVProtection: sandwich screening ----
  screening,           \* detectSandwichAttack() results and the submissions made
  \* ---- ArbitrageEngine: opportunity history ----
  opportunityHistory,  \* this.opportunityHistory: per pair key, the number of entries
  \* ---- RiskManager: values handed to other components ----
  receivers,           \* what other components hold of the RiskManager's state, and their writes
  \* ---- ArbitrageEngine: one scan ----
  scanRun,             \* one scanForOpportunities() call, step by step
  \* ---- ArbitrageEngine: executeArbitrage ----
  executions,          \* the executeArbitrage() calls made so far, each with its position
  \* ---- UniswapV3Exchange: getPoolAddress ----
  pools                \* UniswapV3Exchange: the pool cache and the getPoolAddress calls in progress

riskVars == <<now, metrics, tradeHistory, circuitBreaker, dailyStartValue,
              dailyResetTime, riskOp, evalResult, emitted, ticks>>
nonceVars == <<nonces, pendingCount, callers, nonceCalls>>
scanVars == <<isRunning, scanInterval, timers, scans, starts, clock>>
quoteVars == <<quoteCall, enabledExchanges, venues, quoteResult, timeoutFired>>

evalVars == <<analysis>>
gasVars == <<gasPricing>>
rankVars == <<ranking>>
screenVars == <<screening>>
oppHistoryVars == <<opportunityHistory>>
receiverVars == <<receivers>>
scanRunVars == <<scanRun>>
executionVars == <<executions>>
poolVars == <<pools>>

vars == <<riskVars, nonceVars, scanVars, quoteVars, evalVars, gasVars, rankVars, screenVars, oppHistoryVars, receiverVars, scanRunVars, executionVars, poolVars>>

----------------------------------------------------------------------------
(* Bounds of the exploration *)
MaxTrades == 5            \* recordTrade calls, without the manual controls
MaxBreakerTrades == 3     \* recordTrade calls, when every operation runs
MaxTicks == 2             \* clock advances
NumCallers == 2           \* getSecureNonce() calls that can be in progress at once
MaxNonceCalls == 3        \* getSecureNonce() calls in all
MaxPending == 2           \* transactions the wallet sends past MEVProtection
MaxClock == 13            \* scheduler time explored, in units of 5 seconds
MaxStarts == 2            \* start() calls that go past the isRunning test
NumVenues == 3            \* exchanges registered with the BatchQuoteEngine
MaxAmountOut == 3         \* quoted amounts range over 1..MaxAmountOut
MaxFound == 6             \* opportunities findArbitrageOpportunities returns
MaxRecorded == 1003       \* recordTrade calls, when the history fills up
MaxWrites == 2            \* writes of receivers into what they were handed
MaxAttempts == 3          \* executeArbitrage() calls
NumLookups == 2           \* getPoolAddress() calls in progress at once
MaxScreenings == 2        \* detectSandwichAttack() calls
MaxSubmissions == 2       \* submitProtectedTransaction() calls

(* Program constants *)
Day == 24
OneHour == 1
InitialPortfolioValue == 100
MockGasPrice == 50
VolatilityMinTrades == 10
VolatilityWindow == 20
TradeHistoryCap == 1000

Pct(x) == x * 100

----------------------------------------------------------------------------
(* Arithmetic helpers: exact fractions with a positive denominator *)

RECURSIVE GCD(_, _)
GCD(a, b) == IF b = 0 THEN a ELSE GCD(b, a % b)

Abs(x) == IF x < 0 THEN -x ELSE x
Max(a, b) == IF a >= b THEN a ELSE b
Min(a, b) == IF a <= b THEN a ELSE b

Frac(n, d) ==
  LET g == GCD(Abs(n), d)
  IN  IF g = 0 THEN [n |-> 0, d |-> 1] ELSE [n |-> n \div g, d |-> d \div g]

FInt(k) == [n |-> k, d |-> 1]
FAdd(a, b) == Frac(a.n * b.d + b.n * a.d, a.d * b.d)
FLt(a, b) == a.n * b.d < b.n * a.d
FLe(a, b) == a.n * b.d <= b.n * a.d
FMax(a, b) == IF FLt(a, b) THEN b ELSE a
FMin(a, b) == IF FLt(b, a) THEN b ELSE a
FScale(a, k) == Frac(a.n * k, a.d)

\* x / y * 100 compared with a limit given in hundredths of a percent, with
\* the IEEE-754 outcomes for y <= 0: a negative quotient for y < 0, Infinity
\* for x > 0 and y = 0, NaN (every comparison false) for 0 / 0.
PercentLt(x, y, lim) ==
  CASE y > 0 -> x * 10000 < lim * y
    [] y < 0 -> x * 10000 > lim * y
    [] OTHER -> FALSE
PercentLe(x, y, lim) ==
  CASE y > 0 -> x * 10000 <= lim * y
    [] y < 0 -> x * 10000 >= lim * y
    [] OTHER -> FALSE
\* x / y * 100 > lim10 / 10, lim10 in tenths of hundredths of a percent
PercentGt10(x, y, lim10) ==
  CASE y > 0 -> x * 100000 > lim10 * y
    [] y < 0 -> x * 100000 < lim10 * y
    [] OTHER -> x > 0

RECURSIVE ISqrtFrom(_, _)
ISqrtFrom(x, r) == IF (r + 1) * (r + 1) > x THEN r ELSE ISqrtFrom(x, r + 1)
ISqrt(x) == ISqrtFrom(x, 0)

RECURSIVE SumSeq(_)
SumSeq(s) == IF s = <<>> THEN 0 ELSE Head(s) + SumSeq(Tail(s))

----------------------------------------------------------------------------
(* RiskManager: configuration and inputs *)

\* The RiskLimits handed to the constructor.  consecutiveLossLimit,
\* gasThreshold, positionSizeLimit and drawdownLimit are the application's
\* values; the others are inputs of the exploration.
Limits ==
  [ dailyLossLimit       |-> Pct(12),
    consecutiveLossLimit |-> 5,
    volatilityLimit      |-> 50,
    gasThreshold         |-> 100,
    slippageLimit        |-> 50,
    positionSizeLimit    |-> Pct(10),
    drawdownLimit        |-> Pct(15),
    hourlyTradeLimit     |-> 4 ]

\* TradeResult values handed to recordTrade.  The application records the
\* results carried by 'tradeExecuted' events only, which are built with
\* successful = true; a trade wins or loses 5 on an amount of 10.
TradeAmounts == {10}
TradeProfits == {-5, 5}
TradeInputs == [successful : {TRUE}, netProfit : TradeProfits, amount : TradeAmounts]

\* ArbitrageOpportunity values handed to evaluateRisk: profitPercent in
\* hundredths of a percent, amountIn in money units, gasEstimate in gas.
GoodOpportunity == [profitPercent |-> 30, amountIn |-> 5, gasEstimate |-> 500000]
RiskyOpportunity == [profitPercent |-> 600, amountIn |-> 20, gasEstimate |-> 1500000]
\* A thin margin on a position close to the limit with a high gas estimate:
\* each of the three opportunity terms of the score applies (20 + 25 + 15).
EdgeOpportunity == [profitPercent |-> 5, amountIn |-> 8, gasEstimate |-> 1500000]
Opportunities == {GoodOpportunity, RiskyOpportunity, EdgeOpportunity}

TickSteps == {OneHour, Day}

----------------------------------------------------------------------------
(* RiskManager: pure parts *)

\* tradeHistory.filter(trade => trade.timestamp.getTime() > oneHourAgo).length
TradesInLastHour(history, t) ==
  Cardinality({i \in 1..Len(history) : history[i].timestamp > t - OneHour})

\* (LastN_OneShort keeps the last k - 1 elements.)
LastN_OneShort(s, k) == IF Len(s) <= k THEN s ELSE SubSeq(s, Len(s) - k + 2, Len(s))

\* slice(-k)
LastN(s, k) == IF Len(s) <= k THEN s ELSE SubSeq(s, Len(s) - k + 1, Len(s))

\* Per-trade return netProfit / amount, in whole percent.
TradeReturn(trade) == (trade.netProfit * 100) \div trade.amount

\* Population standard deviation of the last 20 returns, times 100, in
\* hundredths of a percent (integer square root); 0 below 10 trades.
Volatility(history) ==
  IF Len(history) < VolatilityMinTrades THEN 0
  ELSE LET recent == LastN(history, VolatilityWindow)
           n == Len(recent)
           rs == [i \in 1..n |-> TradeReturn(recent[i])]
           sq == [i \in 1..n |-> rs[i] * rs[i]]
           x == n * SumSeq(sq) - SumSeq(rs) * SumSeq(rs)
       IN  (100 * ISqrt(x)) \div n

\* calculateCurrentRiskScore: min(score, 100), in hundredths of a point.
CalculateCurrentRiskScore(m, dsv) ==
  LET base == Pct(m.consecutiveLosses * 5) + m.volatility
                + (IF 10 * m.tradesInLastHour > 8 * Limits.hourlyTradeLimit
                   THEN Pct(20) ELSE 0)
      withDd == FAdd(FInt(base), FScale(m.currentDrawdown, 2))
      loss == Abs(m.dailyPnL) * 10000 * 3
  IN  IF m.dailyPnL >= 0 THEN FMin(withDd, FInt(Pct(100)))
      ELSE IF dsv = 0 THEN FInt(Pct(100))
      ELSE IF dsv > 0 THEN FMin(FAdd(withDd, Frac(loss, dsv)), FInt(Pct(100)))
      ELSE FMin(FAdd(withDd, Frac(-loss, -dsv)), FInt(Pct(100)))

\* (CalculateOpportunityRisk_Unclamped is the sum without the final min.)
CalculateOpportunityRisk_Unclamped(opp, m) ==
  LET profitRisk == IF opp.profitPercent > 500 THEN Pct(30)
                    ELSE IF opp.profitPercent < 10 THEN Pct(20) ELSE 0
      positionRisk == IF PercentGt10(opp.amountIn, m.portfolioValue,
                                     Limits.positionSizeLimit * 8)
                      THEN Pct(25) ELSE 0
      gasRisk == IF opp.gasEstimate > 1000000 THEN Pct(15) ELSE 0
      volRisk == Min(m.volatility * 10, Pct(20))
      lossRisk == IF m.consecutiveLosses > 2 THEN Pct(m.consecutiveLosses * 5) ELSE 0
      base == profitRisk + positionRisk + gasRisk + volRisk + lossRisk
  IN  FAdd(FInt(base), FScale(m.currentDrawdown, 2))

\* calculateOpportunityRisk: min(riskScore, 100), in hundredths of a point.
CalculateOpportunityRisk(opp, m) ==
  LET profitRisk == IF opp.profitPercent > 500 THEN Pct(30)
                    ELSE IF opp.profitPercent < 10 THEN Pct(20) ELSE 0
      positionRisk == IF PercentGt10(opp.amountIn, m.portfolioValue,
                                     Limits.positionSizeLimit * 8)
                      THEN Pct(25) ELSE 0
      gasRisk == IF opp.gasEstimate > 1000000 THEN Pct(15) ELSE 0
      volRisk == Min(m.volatility * 10, Pct(20))
      lossRisk == IF m.consecutiveLosses > 2 THEN Pct(m.consecutiveLosses * 5) ELSE 0
      base == profitRisk + positionRisk + gasRisk + volRisk + lossRisk
  IN  FMin(FAdd(FInt(base), FScale(m.currentDrawdown, 2)), FInt(Pct(100)))

CheckDailyLossLimit(m, dsv) ==
  [ passed   |-> PercentLt(Abs(Min(m.dailyPnL, 0)), dsv, Limits.dailyLossLimit),
    reason   |-> "Daily loss limit exceeded",
    critical |-> TRUE ]

CheckConsecutiveLossLimit(m) ==
  [ passed   |-> m.consecutiveLosses < Limits.consecutiveLossLimit,
    reason   |-> "Consecutive loss limit exceeded",
    critical |-> TRUE ]

CheckVolatilityLimit(m) ==
  [ passed   |-> m.volatility < Limits.volatilityLimit,
    reason   |-> "Market volatility too high",
    critical |-> FALSE ]

CheckSlippageLimit(opp) ==
  [ passed   |-> opp.profitPercent <= Limits.slippageLimit,
    reason   |-> "Slippage risk too high",
    critical |-> FALSE ]

CheckPositionSizeLimit(opp, m) ==
  [ passed   |-> PercentLe(opp.amountIn, m.portfolioValue, Limits.positionSizeLimit),
    reason   |-> "Position size too large",
    critical |-> FALSE ]

CheckDrawdownLimit(m) ==
  [ passed   |-> FLt(m.currentDrawdown, FInt(Limits.drawdownLimit)),
    reason   |-> "Drawdown limit exceeded",
    critical |-> TRUE ]

CheckTradeFrequencyLimit(m) ==
  [ passed   |-> m.tradesInLastHour < Limits.hourlyTradeLimit,
    reason   |-> "Hourly trade limit exceeded",
    critical |-> FALSE ]

\* The value the async checkGasThreshold() resolves to.
CheckGasThreshold ==
  [ passed   |-> MockGasPrice < Limits.gasThreshold,
    reason   |-> "Gas price too high",
    critical |-> FALSE ]

\* checkGasThreshold is async and evaluateRisk puts its result in riskChecks
\* without await: the array element is the Promise, whose passed, reason and
\* critical properties are undefined (falsy; joined as the empty string).
\* (PromiseOf_Awaited is the element an awaited call would leave.)
PromiseOf_Awaited(value) == value

PromiseOf(value) == [passed |-> FALSE, reason |-> "", critical |-> FALSE]

RiskChecks(opp, m, dsv) ==
  << CheckDailyLossLimit(m, dsv),
     CheckConsecutiveLossLimit(m),
     CheckVolatilityLimit(m),
     CheckSlippageLimit(opp),
     CheckPositionSizeLimit(opp, m),
     CheckDrawdownLimit(m),
     CheckTradeFrequencyLimit(m),
     PromiseOf(CheckGasThreshold) >>

\* filter(check => !check.passed), as the sequence of failing checks
RECURSIVE FailedChecks(_)
FailedChecks(checks) ==
  IF checks = <<>> THEN <<>>
  ELSE IF Head(checks).passed THEN FailedChecks(Tail(checks))
  ELSE <<Head(checks)>> \o FailedChecks(Tail(checks))

ShouldAutoReset_IgnoringClock(cb, t) == cb.autoResetTime # 0

ShouldAutoReset_AtDeadline(cb, t) ==
  IF cb.autoResetTime = 0 THEN FALSE ELSE t >= cb.autoResetTime

\* shouldAutoReset
ShouldAutoReset(cb, t) ==
  IF cb.autoResetTime = 0 THEN FALSE ELSE t > cb.autoResetTime

\* The breaker record triggerCircuitBreaker installs.
TrippedBreaker(reason, t) ==
  [isTriggered |-> TRUE, reason |-> reason, triggeredAt |-> t, autoResetTime |-> t + Day]

\* The breaker record resetCircuitBreaker installs (autoResetTime absent).
NormalBreaker ==
  [isTriggered |-> FALSE, reason |-> <<>>, triggeredAt |-> 0, autoResetTime |-> 0]

\* getTodayStartTimestamp: local midnight of the day that contains t.
TodayStart(t) == (t \div Day) * Day

----------------------------------------------------------------------------
(* RiskManager: state transformers.  A risk state rs is the record          *)
(* [m, cb, dsv, drt, ev]: metrics, circuit breaker, dailyStartValue,        *)
(* dailyResetTime and the events emitted by the running operation.          *)

\* resetDailyMetrics at time t
ResetDailyMetrics(rs, t) ==
  IF t > rs.drt + Day
  THEN [rs EXCEPT !.dsv = rs.m.portfolioValue,
                  !.m.dailyPnL = 0,
                  !.drt = TodayStart(t),
                  !.ev = rs.ev \o <<"dailyReset">>]
  ELSE rs

\* updateMetrics at time t
UpdateMetrics(rs, history, t) ==
  LET r1 == [rs EXCEPT !.m.tradesInLastHour = TradesInLastHour(history, t)]
      r2 == ResetDailyMetrics(r1, t)
  IN  [r2 EXCEPT !.m.riskScore = CalculateCurrentRiskScore(r2.m, r2.dsv)]

\* triggerCircuitBreaker(reason) at time t
TriggerCircuitBreaker(rs, reason, t) ==
  [rs EXCEPT !.cb = TrippedBreaker(reason, t),
             !.ev = rs.ev \o <<"circuitBreakerTriggered">>]

\* resetCircuitBreaker()
ResetBreaker(rs) ==
  [rs EXCEPT !.cb = NormalBreaker, !.ev = rs.ev \o <<"circuitBreakerReset">>]

\* The peak updateMetricsFromTrade compares the portfolio value with.
DrawdownPeak(currentValue, totalPnL) ==
  Max(InitialPortfolioValue, currentValue + totalPnL)

\* updateMetricsFromTrade(trade) at time t; history already holds the trade
UpdateMetricsFromTrade(rs, trade, history, t) ==
  LET total == rs.m.totalPnL + trade.netProfit
      value == InitialPortfolioValue + total
      peak == DrawdownPeak(value, total)
      dd == Frac((peak - value) * 10000, peak)
      m1 == [rs.m EXCEPT !.totalPnL = total,
                         !.dailyPnL = rs.m.dailyPnL + trade.netProfit,
                         !.portfolioValue = value,
                         !.currentDrawdown = dd,
                         !.maxDrawdown = FMax(rs.m.maxDrawdown, dd),
                         !.volatility = Volatility(history),
                         !.tradesInLastHour = TradesInLastHour(history, t),
                         !.lastTradeTime = t]
  IN  [rs EXCEPT !.m = [m1 EXCEPT !.riskScore = CalculateCurrentRiskScore(m1, rs.dsv)]]

\* (CountConsecutiveLosses_NoReset never takes the count back to 0.)
CountConsecutiveLosses_NoReset(count, trade) ==
  IF trade.successful /\ trade.netProfit < 0 THEN count + 1 ELSE count

\* The consecutiveLosses update of recordTrade
CountConsecutiveLosses(count, trade) ==
  IF trade.successful /\ trade.netProfit < 0 THEN count + 1
  ELSE IF trade.successful /\ trade.netProfit > 0 THEN 0
  ELSE count

PostTradeRisks_StrictLossCount(m, dsv) ==
  (IF m.dailyPnL < 0 /\ PercentGt10(Abs(m.dailyPnL), dsv, Limits.dailyLossLimit * 8)
   THEN <<"Approaching daily loss limit">> ELSE <<>>)
  \o (IF m.consecutiveLosses > Limits.consecutiveLossLimit
      THEN <<"Consecutive loss limit reached">> ELSE <<>>)
  \o (IF FLt(Frac(Limits.drawdownLimit * 9, 10), m.currentDrawdown)
      THEN <<"Approaching maximum drawdown">> ELSE <<>>)

\* The risks checkPostTradeRisks collects, in order
PostTradeRisks(m, dsv) ==
  (IF m.dailyPnL < 0 /\ PercentGt10(Abs(m.dailyPnL), dsv, Limits.dailyLossLimit * 8)
   THEN <<"Approaching daily loss limit">> ELSE <<>>)
  \o (IF m.consecutiveLosses >= Limits.consecutiveLossLimit
      THEN <<"Consecutive loss limit reached">> ELSE <<>>)
  \o (IF FLt(Frac(Limits.drawdownLimit * 9, 10), m.currentDrawdown)
      THEN <<"Approaching maximum drawdown">> ELSE <<>>)

\* risk.includes(sub), for the three risk texts and the three substrings
\* shouldTriggerCircuitBreaker looks for (includes is case-sensitive)
RiskIncludes(risk, sub) ==
  CASE risk = "Approaching daily loss limit" -> sub = "loss limit"
    [] risk = "Consecutive loss limit reached" -> sub = "loss limit"
    [] risk = "Approaching maximum drawdown" -> sub = "drawdown"
    [] OTHER -> FALSE

\* shouldTriggerCircuitBreaker(risks)
ShouldTriggerCircuitBreaker(risks) ==
  \E i \in 1..Len(risks) :
    \/ RiskIncludes(risks[i], "loss limit")
    \/ RiskIncludes(risks[i], "drawdown")
    \/ RiskIncludes(risks[i], "consecutive")

\* checkPostTradeRisks at time t
CheckPostTradeRisks(rs, t) ==
  LET risks == PostTradeRisks(rs.m, rs.dsv)
  IN  IF Len(risks) > 0 /\ ShouldTriggerCircuitBreaker(risks)
      THEN TriggerCircuitBreaker(rs, risks, t)
      ELSE IF Len(risks) > 0 THEN [rs EXCEPT !.ev = rs.ev \o <<"riskWarning">>]
      ELSE rs

\* The reasons of the failing checks, in order (map(check => check.reason))
RECURSIVE Reasons(_)
Reasons(checks) ==
  IF checks = <<>> THEN <<>> ELSE <<Head(checks).reason>> \o Reasons(Tail(checks))

\* (SomeCritical_AnyFailure treats every failed check as critical.)
SomeCritical_AnyFailure(checks) == Len(checks) > 0

SomeCritical(checks) == \E i \in 1..Len(checks) : checks[i].critical

\* evaluateRisk(opp) at time t: the risk state it leaves and what it returns
EvaluateRiskCall(rs0, opp, history, t) ==
  LET rs1 == UpdateMetrics(rs0, history, t)
      blocked == rs1.cb.isTriggered /\ ~ShouldAutoReset(rs1.cb, t)
      rs2 == IF rs1.cb.isTriggered /\ ~blocked THEN ResetBreaker(rs1) ELSE rs1
      opportunityRisk == CalculateOpportunityRisk(opp, rs2.m)
      failed == FailedChecks(RiskChecks(opp, rs2.m, rs2.dsv))
      reasons == Reasons(failed)
  IN  IF blocked
      THEN [rs |-> rs1,
            ret |-> [approved |-> FALSE,
                     reason |-> <<"Circuit breaker active">> \o rs1.cb.reason,
                     riskScore |-> FInt(Pct(100))]]
      ELSE IF Len(failed) > 0
      THEN [rs |-> IF SomeCritical(failed)
                   THEN TriggerCircuitBreaker(rs2, reasons, t) ELSE rs2,
            ret |-> [approved |-> FALSE, reason |-> reasons,
                     riskScore |-> opportunityRisk]]
      ELSE IF FLt(FInt(Pct(80)), opportunityRisk)
      THEN [rs |-> rs2,
            ret |-> [approved |-> FALSE,
                     reason |-> <<"Overall risk score too high">>,
                     riskScore |-> opportunityRisk]]
      ELSE [rs |-> rs2,
            ret |-> [approved |-> TRUE, reason |-> <<>>,
                     riskScore |-> opportunityRisk]]

\* recordTrade(trade) at time t: the history and the risk state it leaves
RecordTradeCall(rs0, trade, history0, t) ==
  LET stamped == [successful |-> trade.successful, netProfit |-> trade.netProfit,
                  amount |-> trade.amount, timestamp |-> t]
      history == LastN(Append(history0, stamped), TradeHistoryCap)
      rs1 == UpdateMetricsFromTrade(rs0, stamped, history, t)
      rs2 == [rs1 EXCEPT !.m.consecutiveLosses =
                           CountConsecutiveLosses(rs1.m.consecutiveLosses, stamped)]
      rs3 == CheckPostTradeRisks(rs2, t)
  IN  [history |-> history,
       rs |-> [rs3 EXCEPT !.ev = rs3.ev \o <<"tradeRecorded">>]]

----------------------------------------------------------------------------
(* RiskManager: the state machine *)

RiskState ==
  [m |-> metrics, cb |-> circuitBreaker, dsv |-> dailyStartValue,
   drt |-> dailyResetTime, ev |-> <<>>]

NoResult == [approved |-> FALSE, reason |-> <<>>, riskScore |-> FInt(0),
             opportunity |-> GoodOpportunity]

InstallRiskState(rs) ==
  /\ metrics' = rs.m
  /\ circuitBreaker' = rs.cb
  /\ dailyStartValue' = rs.dsv
  /\ dailyResetTime' = rs.drt
  /\ emitted' = rs.ev
  /\ UNCHANGED <<nonceVars, scanVars, quoteVars, evalVars, gasVars, rankVars, screenVars, oppHistoryVars, receiverVars, scanRunVars, executionVars, poolVars>>

\* constructor(limits, initialPortfolioValue), at local midnight
RiskInit ==
  /\ now = 0
  /\ metrics = [dailyPnL |-> 0, totalPnL |-> 0, consecutiveLosses |-> 0,
                currentDrawdown |-> FInt(0), maxDrawdown |-> FInt(0),
                volatility |-> 0, tradesInLastHour |-> 0, lastTradeTime |-> 0,
                portfolioValue |-> InitialPortfolioValue, riskScore |-> FInt(0)]
  /\ tradeHistory = <<>>
  /\ circuitBreaker = [isTriggered |-> FALSE, reason |-> <<>>, triggeredAt |-> 0,
                       autoResetTime |-> 0]
  /\ dailyStartValue = InitialPortfolioValue
  /\ dailyResetTime = TodayStart(0)
  /\ riskOp = "constructor"
  /\ evalResult = NoResult
  /\ emitted = <<>>
  /\ ticks = 0

EvaluateRisk(opp) ==
  LET out == EvaluateRiskCall(RiskState, opp, tradeHistory, now)
  IN  /\ InstallRiskState(out.rs)
      /\ evalResult' = [approved |-> out.ret.approved, reason |-> out.ret.reason,
                        riskScore |-> out.ret.riskScore, opportunity |-> opp]
      /\ riskOp' = "evaluateRisk"
      /\ UNCHANGED <<now, tradeHistory, ticks>>

RecordTrade(trade, maxLen) ==
  /\ Len(tradeHistory) < maxLen
  /\ LET out == RecordTradeCall(RiskState, trade, tradeHistory, now)
     IN  /\ InstallRiskState(out.rs)
         /\ tradeHistory' = out.history
  /\ riskOp' = "recordTrade"
  /\ evalResult' = NoResult
  /\ UNCHANGED <<now, ticks>>

\* forceReset()
ForceReset ==
  /\ InstallRiskState(ResetBreaker([RiskState EXCEPT !.m.consecutiveLosses = 0,
                                                     !.ev = <<>>]))
  /\ riskOp' = "forceReset"
  /\ evalResult' = NoResult
  /\ UNCHANGED <<now, tradeHistory, ticks>>

\* resetCircuitBreaker(), which is public
ResetCircuitBreaker ==
  /\ InstallRiskState(ResetBreaker(RiskState))
  /\ riskOp' = "resetCircuitBreaker"
  /\ evalResult' = NoResult
  /\ UNCHANGED <<now, tradeHistory, ticks>>

\* emergencyStop()
EmergencyStop ==
  /\ InstallRiskState(TriggerCircuitBreaker(RiskState, <<"Emergency stop requested">>, now))
  /\ riskOp' = "emergencyStop"
  /\ evalResult' = NoResult
  /\ UNCHANGED <<now, tradeHistory, ticks>>

\* d hours pass.  The constructor's one-minute interval timer calls
\* resetDailyMetrics all along; the call that finds the clock more than 24 h
\* past dailyResetTime resets the daily figures, and the last such call is
\* the one right after the last midnight before now + d.
Tick(d) ==
  /\ ticks < MaxTicks
  /\ now' = now + d
  /\ ticks' = ticks + 1
  /\ LET lastMidnight == ((now + d - 1) \div Day) * Day
     IN  InstallRiskState(ResetDailyMetrics(RiskState, lastMidnight + 1))
  /\ riskOp' = "tick"
  /\ evalResult' = NoResult
  /\ UNCHANGED tradeHistory

\* Every RiskManager operation, with time passing
RiskNext ==
  \/ \E opp \in Opportunities : EvaluateRisk(opp)
  \/ \E trade \in TradeInputs : RecordTrade(trade, MaxBreakerTrades)
  \/ ForceReset
  \/ ResetCircuitBreaker
  \/ EmergencyStop
  \/ \E d \in TickSteps : Tick(d)

\* Trades and evaluations with time passing, without the manual controls
TradeNext ==
  \/ \E opp \in Opportunities : EvaluateRisk(opp)
  \/ \E trade \in TradeInputs : RecordTrade(trade, MaxTrades)
  \/ \E d \in TickSteps : Tick(d)

\* A long run of break-even trades, one after the other, that fills the
\* history beyond its cap.  The n-th trade is told from the others by its
\* amount, which is n.
NthTrade(n) == [successful |-> TRUE, netProfit |-> 0, amount |-> n]

\* recordTrade calls made so far in such a run
RecordedSoFar ==
  IF tradeHistory = <<>> THEN 0 ELSE tradeHistory[Len(tradeHistory)].amount

RecordNextTrade ==
  /\ RecordedSoFar < MaxRecorded
  /\ RecordTrade(NthTrade(RecordedSoFar + 1), TradeHistoryCap + 1)

HistoryNext == RecordNextTrade

----------------------------------------------------------------------------
(* MEVProtection: nonce assignment.  Each caller is one addMEVProtection()   *)
(* call, which awaits getSecureNonce() and hands the transaction it built    *)
(* to sendTransaction.                                                       *)

Callers == 1..NumCallers

IdleCaller == [pc |-> "idle", cachedNonce |-> 0, nonce |-> 0]

\* Math.max(providerNonce, cachedNonce)
SecureNonce(providerNonce, cachedNonce) == Max(providerNonce, cachedNonce)

\* private nonces: Map<string, number> = new Map()
NonceInit ==
  /\ nonces = 0
  /\ pendingCount = 0
  /\ callers = [c \in Callers |-> IdleCaller]
  /\ nonceCalls = 0

\* getSecureNonce() up to its await: the elements of the array handed to
\* Promise.all are evaluated, which sends the getTransactionCount request
\* and reads this.nonces.get(address) || 0.
GetSecureNonceBegin(c) ==
  /\ callers[c].pc = "idle"
  /\ nonceCalls < MaxNonceCalls
  /\ callers' = [callers EXCEPT ![c] = [pc |-> "awaiting", cachedNonce |-> nonces,
                                        nonce |-> 0]]
  /\ nonceCalls' = nonceCalls + 1
  /\ UNCHANGED <<nonces, pendingCount>>
  /\ UNCHANGED <<riskVars, scanVars, quoteVars, evalVars, gasVars, rankVars, screenVars, oppHistoryVars, receiverVars, scanRunVars, executionVars, poolVars>>

\* getSecureNonce() from its await on: the provider has answered with the
\* pending transaction count; the nonce is chosen, cached and returned.
GetSecureNonceResume(c) ==
  /\ callers[c].pc = "awaiting"
  /\ LET secureNonce == SecureNonce(pendingCount, callers[c].cachedNonce)
     IN  /\ nonces' = secureNonce + 1
         /\ callers' = [callers EXCEPT ![c] = [pc |-> "assigned",
                                               cachedNonce |-> callers[c].cachedNonce,
                                               nonce |-> secureNonce]]
  /\ UNCHANGED <<pendingCount, nonceCalls>>
  /\ UNCHANGED <<riskVars, scanVars, quoteVars, evalVars, gasVars, rankVars, screenVars, oppHistoryVars, receiverVars, scanRunVars, executionVars, poolVars>>

\* sendTransaction(protectedTx): the chain takes the transaction as the
\* wallet's next pending one when its nonce is the pending count.
SendTransaction(c) ==
  /\ callers[c].pc = "assigned"
  /\ pendingCount' = IF callers[c].nonce = pendingCount THEN pendingCount + 1
                     ELSE pendingCount
  /\ callers' = [callers EXCEPT ![c] = IdleCaller]
  /\ UNCHANGED <<nonces, nonceCalls>>
  /\ UNCHANGED <<riskVars, scanVars, quoteVars, evalVars, gasVars, rankVars, screenVars, oppHistoryVars, receiverVars, scanRunVars, executionVars, poolVars>>

\* submitCommitment: the wallet sends a transaction whose nonce the provider
\* library fills in, past getSecureNonce.
SubmitCommitment ==
  /\ pendingCount < MaxPending
  /\ pendingCount' = pendingCount + 1
  /\ UNCHANGED <<nonces, callers, nonceCalls>>
  /\ UNCHANGED <<riskVars, scanVars, quoteVars, evalVars, gasVars, rankVars, screenVars, oppHistoryVars, receiverVars, scanRunVars, executionVars, poolVars>>

NonceNext ==
  \/ \E c \in Callers : GetSecureNonceBegin(c)
  \/ \E c \in Callers : GetSecureNonceResume(c)
  \/ \E c \in Callers : SendTransaction(c)
  \/ SubmitCommitment

----------------------------------------------------------------------------
(* ArbitrageEngine: the scan scheduler.  Time is counted in units of 5 s.    *)

IntervalUnits == 6        \* config.updateIntervalMs = 30000
GasCheckTimeout == 1      \* the 5000 ms the gas price check is raced with
ScanTimeout == 6          \* the 30000 ms the discovery is raced with

\* The smallest id not in use in a set of records with an id field
FreshId(records) ==
  CHOOSE i \in 1..(Cardinality(records) + 1) : \A r \in records : r.id # i

\* A scanForOpportunities() call that has just been made; origin tells who
\* awaits it: start() or a tick of the interval timer.
NewScan(origin) ==
  [id |-> FreshId(scans), origin |-> origin, phase |-> "gas", waited |-> 0]

ScanInit ==
  /\ isRunning = FALSE
  /\ scanInterval = 0
  /\ timers = {}
  /\ scans = {}
  /\ starts = 0
  /\ clock = 0

\* start().  A call made while isRunning returns at once and changes nothing.
Start ==
  /\ ~isRunning
  /\ starts < MaxStarts
  /\ isRunning' = TRUE
  /\ scans' = scans \cup {NewScan("start")}
  /\ starts' = starts + 1
  /\ UNCHANGED <<scanInterval, timers, clock>>
  /\ UNCHANGED <<riskVars, nonceVars, quoteVars, evalVars, gasVars, rankVars, screenVars, oppHistoryVars, receiverVars, scanRunVars, executionVars, poolVars>>

\* stop().  A call made while not isRunning returns at once.
Stop ==
  /\ isRunning
  /\ isRunning' = FALSE
  /\ timers' = {t \in timers : t.id # scanInterval}
  /\ scanInterval' = 0
  /\ UNCHANGED <<scans, starts, clock>>
  /\ UNCHANGED <<riskVars, nonceVars, quoteVars, evalVars, gasVars, rankVars, screenVars, oppHistoryVars, receiverVars, scanRunVars, executionVars, poolVars>>

\* scanForOpportunities() returns.  The start() call that awaited the scan
\* goes on: setInterval, whose id is stored in this.scanInterval.
ScanReturns(s) ==
  /\ scans' = scans \ {s}
  /\ IF s.origin = "start"
     THEN LET id == FreshId(timers)
          IN  /\ timers' = timers \cup {[id |-> id, left |-> IntervalUnits]}
              /\ scanInterval' = id
     ELSE UNCHANGED <<timers, scanInterval>>

\* The gas price check answers before its timeout.
GasCheckAnswers(s, acceptable) ==
  /\ s \in scans
  /\ s.phase = "gas"
  /\ s.waited <= GasCheckTimeout
  /\ IF acceptable
     THEN /\ scans' = (scans \ {s}) \cup {[s EXCEPT !.phase = "discovery", !.waited = 0]}
          /\ UNCHANGED <<timers, scanInterval>>
     ELSE ScanReturns(s)
  /\ UNCHANGED <<isRunning, starts, clock>>
  /\ UNCHANGED <<riskVars, nonceVars, quoteVars, evalVars, gasVars, rankVars, screenVars, oppHistoryVars, receiverVars, scanRunVars, executionVars, poolVars>>

\* The 5000 ms timer of the gas price check resolves the race with true.
GasCheckTimesOut(s) ==
  /\ s \in scans
  /\ s.phase = "gas"
  /\ s.waited = GasCheckTimeout
  /\ scans' = (scans \ {s}) \cup {[s EXCEPT !.phase = "discovery", !.waited = 0]}
  /\ UNCHANGED <<isRunning, scanInterval, timers, starts, clock>>
  /\ UNCHANGED <<riskVars, nonceVars, quoteVars, evalVars, gasVars, rankVars, screenVars, oppHistoryVars, receiverVars, scanRunVars, executionVars, poolVars>>

\* findArbitrageOpportunities() answers before the scan timeout.
DiscoveryAnswers(s) ==
  /\ s \in scans
  /\ s.phase = "discovery"
  /\ s.waited <= ScanTimeout
  /\ ScanReturns(s)
  /\ UNCHANGED <<isRunning, starts, clock>>
  /\ UNCHANGED <<riskVars, nonceVars, quoteVars, evalVars, gasVars, rankVars, screenVars, oppHistoryVars, receiverVars, scanRunVars, executionVars, poolVars>>

\* The 30000 ms scan timeout resolves the race with [].
ScanTimesOut(s) ==
  /\ s \in scans
  /\ s.phase = "discovery"
  /\ s.waited = ScanTimeout
  /\ ScanReturns(s)
  /\ UNCHANGED <<isRunning, starts, clock>>
  /\ UNCHANGED <<riskVars, nonceVars, quoteVars, evalVars, gasVars, rankVars, screenVars, oppHistoryVars, receiverVars, scanRunVars, executionVars, poolVars>>

\* A tick of an interval timer: the callback calls scanForOpportunities().
TimerFires(t) ==
  /\ t \in timers
  /\ t.left = 0
  /\ scans' = scans \cup {NewScan("timer")}
  /\ timers' = (timers \ {t}) \cup {[t EXCEPT !.left = IntervalUnits]}
  /\ UNCHANGED <<isRunning, scanInterval, starts, clock>>
  /\ UNCHANGED <<riskVars, nonceVars, quoteVars, evalVars, gasVars, rankVars, screenVars, oppHistoryVars, receiverVars, scanRunVars, executionVars, poolVars>>

\* 5 seconds pass; a timer that is due fires before more time passes.
Advance ==
  /\ clock < MaxClock
  /\ \A t \in timers : t.left > 0
  /\ \A s \in scans : s.waited < (IF s.phase = "gas" THEN GasCheckTimeout ELSE ScanTimeout)
  /\ clock' = clock + 1
  /\ timers' = {[t EXCEPT !.left = t.left - 1] : t \in timers}
  /\ scans' = {[s EXCEPT !.waited = s.waited + 1] : s \in scans}
  /\ UNCHANGED <<isRunning, scanInterval, starts>>
  /\ UNCHANGED <<riskVars, nonceVars, quoteVars, evalVars, gasVars, rankVars, screenVars, oppHistoryVars, receiverVars, scanRunVars, executionVars, poolVars>>

ScanNext ==
  \/ Start
  \/ Stop
  \/ \E s \in scans, acceptable \in BOOLEAN : GasCheckAnswers(s, acceptable)
  \/ \E s \in scans : GasCheckTimesOut(s)
  \/ \E s \in scans : DiscoveryAnswers(s)
  \/ \E s \in scans : ScanTimesOut(s)
  \/ \E t \in timers : TimerFires(t)
  \/ Advance

----------------------------------------------------------------------------
(* BatchQuoteEngine: getBatchQuotes *)

Venues == 1..NumVenues
QuoteAmounts == 1..MaxAmountOut

CompareQuotes_Flipped(a, b) == IF b.amountOut - a.amountOut > 0 THEN -1 ELSE 1

\* (a, b) => b.amountOut.sub(a.amountOut).gt(0) ? 1 : -1
CompareQuotes(a, b) == IF b.amountOut - a.amountOut > 0 THEN 1 ELSE -1

\* Array.prototype.sort as the runtime (Node 18, V8) carries it out for an
\* array shorter than its minimum run length: CountAndMakeRun finds the run
\* the array starts with, reversing it when it descends, and
\* BinaryInsertionSort inserts the elements that follow one by one.
Reverse(s) == [i \in 1..Len(s) |-> s[Len(s) + 1 - i]]

\* The length of the run a[1..idx-1] extended as far as it goes
RECURSIVE RunLength(_, _, _)
RunLength(a, idx, isDescending) ==
  IF idx > Len(a) THEN idx - 1
  ELSE LET order == CompareQuotes(a[idx], a[idx - 1])
       IN  IF (isDescending /\ order >= 0) \/ (~isDescending /\ order < 0)
           THEN idx - 1
           ELSE RunLength(a, idx + 1, isDescending)

CountAndMakeRun(a) ==
  LET isDescending == CompareQuotes(a[2], a[1]) < 0
      runLength == RunLength(a, 3, isDescending)
  IN  [array |-> IF isDescending
                 THEN Reverse(SubSeq(a, 1, runLength)) \o SubSeq(a, runLength + 1, Len(a))
                 ELSE a,
       runLength |-> runLength]

\* The binary search of BinaryInsertionSort; left, right and mid count from 0
RECURSIVE InsertionPoint(_, _, _, _)
InsertionPoint(a, pivot, left, right) ==
  IF left >= right THEN left
  ELSE LET mid == left + ((right - left) \div 2)
       IN  IF CompareQuotes(pivot, a[mid + 1]) < 0
           THEN InsertionPoint(a, pivot, left, mid)
           ELSE InsertionPoint(a, pivot, mid + 1, right)

\* a[1..start] is sorted; start counts the elements already in place
RECURSIVE BinaryInsertionSort(_, _)
BinaryInsertionSort(a, start) ==
  IF start >= Len(a) THEN a
  ELSE LET pivot == a[start + 1]
           left == InsertionPoint(a, pivot, 0, start)
       IN  BinaryInsertionSort(SubSeq(a, 1, left) \o <<pivot>>
                                 \o SubSeq(a, left + 1, start)
                                 \o SubSeq(a, start + 2, Len(a)),
                               start + 1)

\* .sort((a, b) => b.amountOut.sub(a.amountOut).gt(0) ? 1 : -1)
SortQuotes(a) ==
  IF Len(a) < 2 THEN a
  ELSE LET run == CountAndMakeRun(a)
       IN  BinaryInsertionSort(run.array, run.runLength)

\* The results of Promise.allSettled(promises) that are fulfilled with a
\* quote, in the order of the exchanges, each with dex: name
RECURSIVE ValidQuotes(_, _, _)
ValidQuotes(vs, en, v) ==
  IF v > NumVenues THEN <<>>
  ELSE (IF v \in en /\ vs[v].status = "quoted"
        THEN <<[dex |-> v, amountOut |-> vs[v].amountOut]>> ELSE <<>>)
       \o ValidQuotes(vs, en, v + 1)

AllSettled(vs, en) == \A v \in en : vs[v].status \in {"quoted", "failed"}

\* The try block after the race is won by Promise.allSettled
BatchSettled(vs, en) ==
  [status |-> "returned", quotes |-> SortQuotes(ValidQuotes(vs, en, 1))]

BatchCatch_Rethrow(error) == [status |-> "raised", quotes |-> <<>>]

\* The catch block of getBatchQuotes: return []
BatchCatch(error) == [status |-> "returned", quotes |-> <<>>]

NotAsked == [status |-> "idle", amountOut |-> 0]

QuoteInit ==
  /\ quoteCall = "idle"
  /\ enabledExchanges = {}
  /\ venues = [v \in Venues |-> NotAsked]
  /\ quoteResult = <<>>
  /\ timeoutFired = FALSE

\* getBatchQuotes(tokenIn, tokenOut, amountIn, timeout) up to its await,
\* with en the exchanges whose EXCHANGES entry is enabled
GetBatchQuotes(en) ==
  /\ quoteCall # "pending"
  /\ enabledExchanges' = en
  /\ timeoutFired' = FALSE
  /\ quoteResult' = <<>>
  /\ IF en = {}
     THEN /\ quoteCall' = "returned"
          /\ venues' = [v \in Venues |-> NotAsked]
     ELSE /\ quoteCall' = "pending"
          /\ venues' = [v \in Venues |->
                          IF v \in en THEN [status |-> "pending", amountOut |-> 0]
                          ELSE NotAsked]
  /\ UNCHANGED <<riskVars, nonceVars, scanVars, evalVars, gasVars, rankVars, screenVars, oppHistoryVars, receiverVars, scanRunVars, executionVars, poolVars>>

\* A getQuote promise has settled as vs records; when it is the last one,
\* Promise.allSettled wins the race and the call returns the sorted quotes.
VenueSettles(vs) ==
  /\ venues' = vs
  /\ IF quoteCall = "pending" /\ AllSettled(vs, enabledExchanges)
     THEN LET out == BatchSettled(vs, enabledExchanges)
          IN  /\ quoteCall' = out.status
              /\ quoteResult' = out.quotes
     ELSE UNCHANGED <<quoteCall, quoteResult>>
  /\ UNCHANGED <<enabledExchanges, timeoutFired>>
  /\ UNCHANGED <<riskVars, nonceVars, scanVars, evalVars, gasVars, rankVars, screenVars, oppHistoryVars, receiverVars, scanRunVars, executionVars, poolVars>>

\* exchange.getQuote resolves with a quote
VenueQuotes(v, amount) ==
  /\ venues[v].status = "pending"
  /\ VenueSettles([venues EXCEPT ![v] = [status |-> "quoted", amountOut |-> amount]])

\* exchange.getQuote rejects (error, no liquidity, its own timeout): the
\* catch of the exchange's promise returns null
VenueFails(v) ==
  /\ venues[v].status = "pending"
  /\ VenueSettles([venues EXCEPT ![v] = [status |-> "failed", amountOut |-> 0]])

\* The batch timeout rejects while a getQuote promise is still pending
BatchTimeout ==
  /\ quoteCall = "pending"
  /\ LET out == BatchCatch("timeout")
     IN  /\ quoteCall' = out.status
         /\ quoteResult' = out.quotes
  /\ timeoutFired' = TRUE
  /\ UNCHANGED <<enabledExchanges, venues>>
  /\ UNCHANGED <<riskVars, nonceVars, scanVars, evalVars, gasVars, rankVars, screenVars, oppHistoryVars, receiverVars, scanRunVars, executionVars, poolVars>>

QuoteNext ==
  \/ \E en \in SUBSET Venues : GetBatchQuotes(en)
  \/ \E v \in Venues, amount \in QuoteAmounts : VenueQuotes(v, amount)
  \/ \E v \in Venues : VenueFails(v)
  \/ BatchTimeout

----------------------------------------------------------------------------
(* ArbitrageEngine: performTokenPairAnalysis.  Prices and profits are       *)
(* BigNumbers scaled by parseEther('1') = 10^18 in the code; here they are   *)
(* counted in units of 10^12, so that 10^18 is PriceUnit.                    *)

PriceUnit == 1000000      \* parseEther('1')
DefaultGasCost == 15000   \* 500000 gas at parseUnits('30', 'gwei')
AnalysisAmounts == {1000} \* amountIn, in whole tokens
TokenDecimals == 18       \* decimals of tokenA and tokenB (WMATIC, WETH)

\* What an exchange answers to getQuote in each direction: an amountOut in
\* whole tokens, 0 when it gives no quote
ForwardAnswers == {0, 995, 1020}
ReverseAnswers == {0, 1000, 1035}

\* calculateArbitrageGasCost: it fails or times out, or gives totalCostWei
GasCostOutcomes ==
  {[ok |-> FALSE, totalCostWei |-> 0]}
    \cup [ok : {TRUE}, totalCostWei : {2000, 40000}]

NoOpportunity == [kind |-> "none"]

RECURSIVE Pow10(_)
Pow10(k) == IF k = 0 THEN 1 ELSE 10 * Pow10(k - 1)

\* calculatePrice
CalculatePrice(amountIn, amountOut, decimalsIn, decimalsOut) ==
  LET normalizedIn == amountIn * Pow10(18 - decimalsIn)
      normalizedOut == amountOut * Pow10(18 - decimalsOut)
  IN  IF normalizedOut = 0 THEN 0
      ELSE (normalizedIn * PriceUnit) \div normalizedOut

\* The list getBatchQuotes returns when the exchanges answer as ans says
QuotesOfAnswers(ans) ==
  SortQuotes(ValidQuotes([v \in Venues |->
                            IF ans[v] = 0 THEN [status |-> "failed", amountOut |-> 0]
                            ELSE [status |-> "quoted", amountOut |-> ans[v]]],
                         Venues, 1))

\* for (const quote of quotes) if (!best || quote.amountOut.gt(best.amountOut))
\* best = quote; best starts as the first quote
RECURSIVE BestQuote(_, _)
BestQuote(quotes, best) ==
  IF quotes = <<>> THEN best
  ELSE BestQuote(Tail(quotes),
                 IF Head(quotes).amountOut > best.amountOut THEN Head(quotes) ELSE best)

\* The two tests on the number of quotes
TooFewQuotes(forwardQuotes, reverseQuotes) ==
  \/ Len(forwardQuotes) = 0 \/ Len(reverseQuotes) = 0
  \/ (Len(forwardQuotes) < 2 /\ Len(reverseQuotes) < 2)

SameExchange_Never(bestBuy, bestSell) == FALSE

\* bestBuy.dex === bestSell.dex
SameExchange(bestBuy, bestSell) == bestBuy.dex = bestSell.dex

NetProfit_AddingGas(grossProfit, gasCost) == grossProfit + gasCost

\* grossProfit.sub(gasCost)
NetProfit(grossProfit, gasCost) == grossProfit - gasCost

\* The gas cost figure the analysis subtracts under a gas outcome
GasCostUsed(gas) == IF gas.ok THEN gas.totalCostWei ELSE DefaultGasCost

\* performTokenPairAnalysis from "Calculate arbitrage potential" on.
\* profitPercent is held in hundredths of a percent.
EvaluateSpread(bestBuy, bestSell, amountIn, decimalsA, decimalsB, gas) ==
  LET buyPrice == CalculatePrice(amountIn, bestBuy.amountOut, decimalsA, decimalsB)
      sellPrice == CalculatePrice(amountIn, bestSell.amountOut, decimalsB, decimalsA)
      grossProfit == sellPrice - buyPrice
      profitPercent == (grossProfit * 10000) \div buyPrice
  IN  IF sellPrice <= buyPrice THEN NoOpportunity
      ELSE IF buyPrice = 0 THEN [kind |-> "error"]
      ELSE IF profitPercent < 1 THEN NoOpportunity
      ELSE [kind |-> "opportunity",
            buyDex |-> bestBuy.dex, sellDex |-> bestSell.dex,
            buyPrice |-> buyPrice, sellPrice |-> sellPrice,
            profit |-> grossProfit, profitPercent |-> profitPercent,
            netProfit |-> NetProfit(grossProfit, GasCostUsed(gas))]

PerformTokenPairAnalysis_NoVenueChecks(forwardQuotes, reverseQuotes, amountIn, decimalsA, decimalsB, gas) ==
  IF Len(forwardQuotes) = 0 \/ Len(reverseQuotes) = 0 THEN NoOpportunity
  ELSE EvaluateSpread(BestQuote(forwardQuotes, Head(forwardQuotes)),
                      BestQuote(reverseQuotes, Head(reverseQuotes)),
                      amountIn, decimalsA, decimalsB, gas)

\* performTokenPairAnalysis, given the two lists getBatchQuotes returned
PerformTokenPairAnalysis(forwardQuotes, reverseQuotes, amountIn, decimalsA, decimalsB, gas) ==
  IF TooFewQuotes(forwardQuotes, reverseQuotes) THEN NoOpportunity
  ELSE LET bestBuy == BestQuote(forwardQuotes, Head(forwardQuotes))
           bestSell == BestQuote(reverseQuotes, Head(reverseQuotes))
       IN  IF SameExchange(bestBuy, bestSell) THEN NoOpportunity
           ELSE EvaluateSpread(bestBuy, bestSell, amountIn, decimalsA, decimalsB, gas)

\* analyzeTokenPair: an error thrown by the analysis gives null
AnalyzeTokenPairResult(result) ==
  IF result.kind = "error" THEN NoOpportunity ELSE result

EvalInit ==
  analysis = [called |-> FALSE, forwardQuotes |-> <<>>, reverseQuotes |-> <<>>,
              gas |-> [ok |-> FALSE, totalCostWei |-> 0], result |-> NoOpportunity]

\* analyzeTokenPair(tokenA, tokenB, amountIn) with the exchanges answering
\* forward and reverse and the gas cost calculation ending as gas.  The
\* function keeps no state: a behaviour holds one call.
AnalyzeTokenPair(amountIn, forward, reverse, gas) ==
  /\ ~analysis.called
  /\ LET forwardQuotes == QuotesOfAnswers(forward)
         reverseQuotes == QuotesOfAnswers(reverse)
     IN  analysis' = [called |-> TRUE,
                      forwardQuotes |-> forwardQuotes,
                      reverseQuotes |-> reverseQuotes,
                      gas |-> gas,
                      result |-> AnalyzeTokenPairResult(
                                   PerformTokenPairAnalysis(
                                     forwardQuotes, reverseQuotes, amountIn,
                                     TokenDecimals, TokenDecimals, gas))]
  /\ UNCHANGED <<riskVars, nonceVars, scanVars, quoteVars, gasVars, rankVars, screenVars, oppHistoryVars, receiverVars, scanRunVars, executionVars, poolVars>>

EvalNext ==
  /\ ~analysis.called
  /\ \E amountIn \in AnalysisAmounts, forward \in [Venues -> ForwardAnswers],
        reverse \in [Venues -> ReverseAnswers], gas \in GasCostOutcomes :
       AnalyzeTokenPair(amountIn, forward, reverse, gas)

----------------------------------------------------------------------------
(* MEVProtection: the gas price of a protected transaction *)

GweiUnit == 100               \* gas prices are in hundredths of a gwei
MaxGasPriceGwei == 200        \* parseUnits('200', 'gwei')
FallbackGasPriceGwei == 100   \* parseUnits('100', 'gwei')
MinPremium == 5               \* Math.floor(Math.random() * 10) + 5
PremiumSpan == 10

Gwei(n) == n * GweiUnit

\* transaction.gasPrice of the ProtectedTransaction handed in
BaseGasPrices == {Gwei(30), Gwei(190), Gwei(250)}

\* What provider.getFeeData() does: it throws, or it answers with gasPrice
\* null or with a gas price.
FeeDataOutcomes ==
  {[ok |-> FALSE, hasPrice |-> FALSE, gasPrice |-> 0],
   [ok |-> TRUE, hasPrice |-> FALSE, gasPrice |-> 0]}
    \cup [ok : {TRUE}, hasPrice : {TRUE}, gasPrice : {Gwei(40), Gwei(180), Gwei(400)}]

\* Math.floor(Math.random() * 10) + 5
RandomPremiums == MinPremium..(MinPremium + PremiumSpan - 1)

\* calculateAntiMEVGasPrice(baseGasPrice)
CalculateAntiMEVGasPrice(baseGasPrice, feeData, randomPremium) ==
  IF ~feeData.ok THEN baseGasPrice
  ELSE LET currentGasPrice == IF feeData.hasPrice THEN feeData.gasPrice
                              ELSE baseGasPrice
           protectedGasPrice == (currentGasPrice * (100 + randomPremium)) \div 100
       IN  IF protectedGasPrice > Gwei(MaxGasPriceGwei) THEN Gwei(MaxGasPriceGwei)
           ELSE protectedGasPrice

\* contractCall.gasPrice of the call handed to protectFlashLoanExecution;
\* set FALSE stands for undefined.
ContractCallPrices ==
  {[set |-> FALSE, gasPrice |-> 0]}
    \cup [set : {TRUE}, gasPrice : {Gwei(30), Gwei(120), Gwei(190)}]

\* contractCall.gasPrice?.mul(150).div(100) || parseUnits('100', 'gwei')
EnhancedGasPrice(call) ==
  IF call.set THEN (call.gasPrice * 150) \div 100 ELSE Gwei(FallbackGasPriceGwei)

NoGasPricing ==
  [op |-> "none", base |-> 0, feeData |-> [ok |-> FALSE, hasPrice |-> FALSE, gasPrice |-> 0],
   randomPremium |-> 0, competing |-> FALSE, set |-> FALSE, gasPrice |-> 0]

GasInit == gasPricing = NoGasPricing

\* addMEVProtection(transaction): the gasPrice (and maxFeePerGas) of the
\* request it builds, when getFeeData() answers.
AddMEVProtection(baseGasPrice, feeData, randomPremium) ==
  /\ gasPricing.op = "none"
  /\ feeData.ok
  /\ gasPricing' = [NoGasPricing EXCEPT
                      !.op = "addMEVProtection", !.base = baseGasPrice,
                      !.feeData = feeData, !.randomPremium = randomPremium,
                      !.set = TRUE,
                      !.gasPrice = CalculateAntiMEVGasPrice(baseGasPrice, feeData,
                                                            randomPremium)]
  /\ UNCHANGED <<riskVars, nonceVars, scanVars, quoteVars, evalVars, rankVars, screenVars, oppHistoryVars, receiverVars, scanRunVars, executionVars, poolVars>>

\* addMEVProtection(transaction) when getFeeData() throws: no premium is
\* drawn.
AddMEVProtectionFeeDataFails(baseGasPrice, feeData) ==
  /\ gasPricing.op = "none"
  /\ ~feeData.ok
  /\ gasPricing' = [NoGasPricing EXCEPT
                      !.op = "addMEVProtection", !.base = baseGasPrice,
                      !.feeData = feeData, !.set = TRUE,
                      !.gasPrice = CalculateAntiMEVGasPrice(baseGasPrice, feeData, 0)]
  /\ UNCHANGED <<riskVars, nonceVars, scanVars, quoteVars, evalVars, rankVars, screenVars, oppHistoryVars, receiverVars, scanRunVars, executionVars, poolVars>>

\* protectFlashLoanExecution(contractCall)
ProtectFlashLoanExecution(call, competing) ==
  /\ gasPricing.op = "none"
  /\ gasPricing' = [NoGasPricing EXCEPT
                      !.op = "protectFlashLoanExecution", !.base = call.gasPrice,
                      !.competing = competing,
                      !.set = competing \/ call.set,
                      !.gasPrice = IF competing THEN EnhancedGasPrice(call)
                                   ELSE call.gasPrice]
  /\ UNCHANGED <<riskVars, nonceVars, scanVars, quoteVars, evalVars, rankVars, screenVars, oppHistoryVars, receiverVars, scanRunVars, executionVars, poolVars>>

GasNext ==
  \/ \E b \in BaseGasPrices, f \in FeeDataOutcomes, p \in RandomPremiums :
       AddMEVProtection(b, f, p)
  \/ \E b \in BaseGasPrices, f \in FeeDataOutcomes : AddMEVProtectionFeeDataFails(b, f)
  \/ \E call \in ContractCallPrices, competing \in BOOLEAN :
       ProtectFlashLoanExecution(call, competing)

----------------------------------------------------------------------------
(* ArbitrageEngine: the filter and ranking of scanForOpportunities.  netProfit *)
(* is in the units of the pair analysis (PriceUnit for 10^18), profitPercent  *)
(* in hundredths of a percent, money in cents.                                *)

MaticPriceCents == 50          \* maticPriceUSD = 0.5
MinProfitThresholdCents == 2   \* MIN_PROFIT_THRESHOLD || '0.02'
MinProfitPercent == 5          \* opportunity.profitPercent < 0.05
MaxSlippagePercent == 50       \* MAX_SLIPPAGE || '0.5'
TopOpportunities == 5          \* .slice(0, 5)

\* The opportunities findArbitrageOpportunities can return: one below the
\* profit threshold, three viable ones, one with too wide and one with too
\* thin a spread.
FoundOpportunities ==
  {[netProfit |-> 30000, profitPercent |-> 20],
   [netProfit |-> 50000, profitPercent |-> 20],
   [netProfit |-> 60000, profitPercent |-> 20],
   [netProfit |-> 70000, profitPercent |-> 20],
   [netProfit |-> 80000, profitPercent |-> 80],
   [netProfit |-> 80000, profitPercent |-> 3]}

\* isOpportunityViable(opportunity)
IsOpportunityViable(opportunity) ==
  /\ ~(opportunity.netProfit * MaticPriceCents < MinProfitThresholdCents * PriceUnit)
  /\ ~(opportunity.profitPercent < MinProfitPercent)
  /\ ~(opportunity.profitPercent > MaxSlippagePercent)

\* .filter(op => this.isOpportunityViable(op))
FilterViable(opportunities) == SelectSeq(opportunities, IsOpportunityViable)

CompareOpportunities_Flipped(a, b) == IF b.netProfit - a.netProfit > 0 THEN -1 ELSE 1

\* (a, b) => b.netProfit.sub(a.netProfit).gt(0) ? 1 : -1
CompareOpportunities(a, b) == IF b.netProfit - a.netProfit > 0 THEN 1 ELSE -1

\* Array.prototype.sort with that comparator, as for the quotes: the run the
\* array starts with, then binary insertion of the elements that follow.
RECURSIVE OpportunityRunLength(_, _, _)
OpportunityRunLength(a, idx, isDescending) ==
  IF idx > Len(a) THEN idx - 1
  ELSE LET order == CompareOpportunities(a[idx], a[idx - 1])
       IN  IF (isDescending /\ order >= 0) \/ (~isDescending /\ order < 0)
           THEN idx - 1
           ELSE OpportunityRunLength(a, idx + 1, isDescending)

OpportunityCountAndMakeRun(a) ==
  LET isDescending == CompareOpportunities(a[2], a[1]) < 0
      runLength == OpportunityRunLength(a, 3, isDescending)
  IN  [array |-> IF isDescending
                 THEN Reverse(SubSeq(a, 1, runLength)) \o SubSeq(a, runLength + 1, Len(a))
                 ELSE a,
       runLength |-> runLength]

RECURSIVE OpportunityInsertionPoint(_, _, _, _)
OpportunityInsertionPoint(a, pivot, left, right) ==
  IF left >= right THEN left
  ELSE LET mid == left + ((right - left) \div 2)
       IN  IF CompareOpportunities(pivot, a[mid + 1]) < 0
           THEN OpportunityInsertionPoint(a, pivot, left, mid)
           ELSE OpportunityInsertionPoint(a, pivot, mid + 1, right)

RECURSIVE OpportunityInsertionSort(_, _)
OpportunityInsertionSort(a, start) ==
  IF start >= Len(a) THEN a
  ELSE LET pivot == a[start + 1]
           left == OpportunityInsertionPoint(a, pivot, 0, start)
       IN  OpportunityInsertionSort(SubSeq(a, 1, left) \o <<pivot>>
                                      \o SubSeq(a, left + 1, start)
                                      \o SubSeq(a, start + 2, Len(a)),
                                    start + 1)

\* .sort((a, b) => b.netProfit.sub(a.netProfit).gt(0) ? 1 : -1)
SortOpportunities(a) ==
  IF Len(a) < 2 THEN a
  ELSE LET run == OpportunityCountAndMakeRun(a)
       IN  OpportunityInsertionSort(run.array, run.runLength)

\* .slice(0, 5)
TopSlice(a) == SubSeq(a, 1, Min(Len(a), TopOpportunities))

\* viableOpportunities of scanForOpportunities
ViableOpportunities(opportunities) ==
  TopSlice(SortOpportunities(FilterViable(opportunities)))

RankInit ==
  ranking = [done |-> FALSE, opportunities |-> <<>>, emitted |-> FALSE,
             viableOpportunities |-> <<>>]

\* The part of scanForOpportunities that follows the race: the filter, the
\* sort, the slice, and the 'opportunities' event when the list is not empty.
RankOpportunities(opportunities) ==
  /\ ~ranking.done
  /\ LET viableOpportunities == ViableOpportunities(opportunities)
     IN  ranking' = [done |-> TRUE, opportunities |-> opportunities,
                     emitted |-> Len(viableOpportunities) > 0,
                     viableOpportunities |-> viableOpportunities]
  /\ UNCHANGED <<riskVars, nonceVars, scanVars, quoteVars, evalVars, gasVars, screenVars, oppHistoryVars, receiverVars, scanRunVars, executionVars, poolVars>>

RankNext ==
  /\ ~ranking.done
  /\ \E n \in 0..MaxFound : \E opportunities \in [1..n -> FoundOpportunities] :
       RankOpportunities(opportunities)

----------------------------------------------------------------------------
(* MEVProtection: sandwich screening and submission.  Scores are in tenths. *)

SimilarTxThreshold == 2     \* similarTxs.length > 2
SimilarTxScore == 3         \* suspicionScore += 0.3
HighGasScore == 4           \* suspicionScore += 0.4
SandwichThreshold == 7      \* suspiciousPatterns.score > 0.7

\* What provider.send('txpool_content', []) does: it throws (the query fails
\* or the method is not supported), it answers null, or it answers with a
\* pool in which `similar` transactions target the same function and some
\* transaction has (or none has) a gas price above 1.5 times the average.
PoolOutcomes ==
  {[kind |-> "throws", similar |-> 0, highGas |-> FALSE],
   [kind |-> "null", similar |-> 0, highGas |-> FALSE]}
    \cup [kind : {"content"}, similar : {0, 2, 3}, highGas : BOOLEAN]

\* analyzeMempoolPatterns(pendingTxs, targetTx).score
SuspicionScore(pool) ==
  Min((IF pool.similar > SimilarTxThreshold THEN SimilarTxScore ELSE 0)
        + (IF pool.highGas THEN HighGasScore ELSE 0), 10)

NoSignal == [raised |-> FALSE, isSandwich |-> FALSE, confidence |-> 0]

\* (DetectSandwichAttack_Rethrow lets the error of the query out.)
DetectSandwichAttack_Rethrow(pool) ==
  IF pool.kind \in {"throws", "null"}
  THEN [raised |-> TRUE, isSandwich |-> FALSE, confidence |-> 0]
  ELSE [raised |-> FALSE, isSandwich |-> SuspicionScore(pool) > SandwichThreshold,
        confidence |-> SuspicionScore(pool)]

\* detectSandwichAttack(transaction): a query that throws, and a null answer
\* (pending.pending throws a TypeError), end in the catch branch.
DetectSandwichAttack(pool) ==
  IF pool.kind \in {"throws", "null"} THEN NoSignal
  ELSE [raised |-> FALSE, isSandwich |-> SuspicionScore(pool) > SandwichThreshold,
        confidence |-> SuspicionScore(pool)]

ScreenInit == screening = [results |-> <<>>, submissions |-> <<>>]

\* A detectSandwichAttack(transaction) call
Screen(pool) ==
  /\ Len(screening.results) < MaxScreenings
  /\ screening' = [screening EXCEPT
                     !.results = Append(@, [pool |-> pool,
                                            result |-> DetectSandwichAttack(pool)])]
  /\ UNCHANGED <<riskVars, nonceVars, scanVars, quoteVars, evalVars, gasVars, rankVars, oppHistoryVars, receiverVars, scanRunVars, executionVars, poolVars>>

\* A submitProtectedTransaction(transaction) call that reaches
\* sendTransaction: by the private mempool or with protection.  Nothing on
\* either path reads a detectSandwichAttack result.
SubmitProtectedTransaction(usePrivateMempool) ==
  /\ Len(screening.submissions) < MaxSubmissions
  /\ screening' = [screening EXCEPT
                     !.submissions = Append(@, IF usePrivateMempool THEN "private"
                                               ELSE "protected")]
  /\ UNCHANGED <<riskVars, nonceVars, scanVars, quoteVars, evalVars, gasVars, rankVars, oppHistoryVars, receiverVars, scanRunVars, executionVars, poolVars>>

ScreenNext ==
  \/ \E pool \in PoolOutcomes : Screen(pool)
  \/ \E usePrivateMempool \in BOOLEAN : SubmitProtectedTransaction(usePrivateMempool)

----------------------------------------------------------------------------
(* ArbitrageEngine: the opportunity history scanForOpportunities keeps.  The *)
(* model keeps the length of each pair's array, and whether the last push   *)
(* was followed by the splice.                                              *)

OpportunityHistoryCap == 100    \* .length > 100
SpliceCount == 50               \* .splice(0, 50)

\* The keys `${tokenA.symbol}-${tokenB.symbol}` of two of the priority pairs
PairKeys == {"WMATIC-USDC", "WETH-USDC"}

\* (HistoryAfterPush_NoSplice leaves the array as the push made it.)
HistoryAfterPush_NoSplice(length, count) == length + count

\* The length of a pair's array after push(...viableOpportunities) and the
\* splice that follows when it has grown beyond 100
HistoryAfterPush(length, count) ==
  LET pushed == length + count
  IN  IF pushed > OpportunityHistoryCap THEN pushed - Min(SpliceCount, pushed)
      ELSE pushed

OppHistoryInit == opportunityHistory = [k \in PairKeys |-> [length |-> 0, spliced |-> FALSE]]

\* A scan that found `count` viable opportunities, the first of them of the
\* pair pairKey: all of them are pushed under that key.
StoreInHistory(pairKey, count) ==
  /\ opportunityHistory' =
       [opportunityHistory EXCEPT
          ![pairKey] = [length |-> HistoryAfterPush(@.length, count),
                        spliced |-> @.length + count > OpportunityHistoryCap]]
  /\ UNCHANGED <<riskVars, nonceVars, scanVars, quoteVars, evalVars, gasVars, rankVars, screenVars, receiverVars, scanRunVars, executionVars, poolVars>>

OppHistoryNext ==
  \E pairKey \in PairKeys, count \in 1..TopOpportunities : StoreInHistory(pairKey, count)

----------------------------------------------------------------------------
(* RiskManager: what it hands to other components.  A getter returns a     *)
(* shallow copy ({ ...this.metrics }); an event payload carries             *)
(* metrics: this.metrics, the object itself.  this.metrics is assigned in   *)
(* the constructor only, so a payload's metrics stays the RiskManager's     *)
(* object for good.                                                         *)

Getters == {"getMetrics", "getCircuitBreakerState"}

ReceiversInit == receivers = [copies |-> {}, writes |-> 0]

\* An event with metrics: this.metrics in its payload has been emitted:
\* 'tradeRecorded' by every recordTrade, 'riskWarning' and
\* 'circuitBreakerTriggered' by some calls.
PayloadHandedOut ==
  \/ Len(tradeHistory) > 0
  \/ \E i \in DOMAIN emitted : emitted[i] \in {"riskWarning", "circuitBreakerTriggered"}

\* getMetrics() or getCircuitBreakerState(): the caller gets a copy
Get(getter) ==
  /\ getter \notin receivers.copies
  /\ receivers' = [receivers EXCEPT !.copies = @ \cup {getter}]
  /\ UNCHANGED <<riskVars, nonceVars, scanVars, quoteVars, evalVars, gasVars, rankVars, screenVars, oppHistoryVars, scanRunVars, executionVars, poolVars>>

\* A caller of a getter assigns to a field of the object it got: the copy
\* changes, the RiskManager's object does not (the fields are numbers,
\* booleans and strings).
WriteToCopy(getter) ==
  /\ getter \in receivers.copies
  /\ receivers.writes < MaxWrites
  /\ receivers' = [receivers EXCEPT !.writes = @ + 1]
  /\ UNCHANGED <<riskVars, nonceVars, scanVars, quoteVars, evalVars, gasVars, rankVars, screenVars, oppHistoryVars, scanRunVars, executionVars, poolVars>>

\* A listener assigns payload.metrics.consecutiveLosses = 0 in the payload
\* of an event it received.
WriteToPayload ==
  /\ PayloadHandedOut
  /\ receivers.writes < MaxWrites
  /\ receivers' = [receivers EXCEPT !.writes = @ + 1]
  /\ metrics' = [metrics EXCEPT !.consecutiveLosses = 0]
  /\ UNCHANGED <<now, tradeHistory, circuitBreaker, dailyStartValue, dailyResetTime,
                 riskOp, evalResult, emitted, ticks>>
  /\ UNCHANGED <<nonceVars, scanVars, quoteVars, evalVars, gasVars, rankVars, screenVars, oppHistoryVars, scanRunVars, executionVars, poolVars>>

ReceiversNext ==
  \/ \E trade \in TradeInputs : RecordTrade(trade, MaxBreakerTrades)
  \/ \E opp \in Opportunities : EvaluateRisk(opp)
  \/ \E getter \in Getters : Get(getter)
  \/ \E getter \in Getters : WriteToCopy(getter)
  \/ WriteToPayload

----------------------------------------------------------------------------
(* ArbitrageEngine: one scanForOpportunities() call, the one start() makes,  *)
(* step by step: the gas price check, the pair analyses of                   *)
(* findArbitrageOpportunities, the race with the scan timeout, and the       *)
(* events.  Time is left out: an analysis and the timeout may come in any    *)
(* order.                                                                    *)

NumPriorityPairs == 6     \* the priorityPairs of generateTokenPairs
MaxConcurrency == 3       \* const maxConcurrency = 3

TokenPairs == 1..NumPriorityPairs

\* `${tokenA.symbol}-${tokenB.symbol}` of the priority pairs, in their order
PairSymbols == <<"WMATIC-USDC", "WETH-USDC", "WBTC-WETH", "DAI-USDC", "USDC-USDC.e", "WMATIC-WETH">>

\* What analyzeTokenPair can answer: null, an opportunity that
\* isOpportunityViable accepts, or one it rejects.
NullOpportunity == [netProfit |-> 0, profitPercent |-> 0]
ViableOpportunity == [netProfit |-> 50000, profitPercent |-> 20]
ThinOpportunity == [netProfit |-> 30000, profitPercent |-> 20]
AnalysisOutcomes == {NullOpportunity, ViableOpportunity, ThinOpportunity}

\* for (let i = 0; i < tokenPairs.length; i += maxConcurrency): the values
\* of i, and tokenPairs.slice(i, i + maxConcurrency) as pair numbers from 1
BatchStarts == {i \in 0..(NumPriorityPairs - 1) : i % MaxConcurrency = 0}
BatchOf(i) == {pair \in TokenPairs : i < pair /\ pair <= i + MaxConcurrency}

\* The analyses findArbitrageOpportunities has started when it reaches its
\* await: the loop builds every batch's Promise.all, whose map calls
\* analyzeTokenPair for each pair of the batch, and awaits none of them.
AnalysesStarted == UNION {BatchOf(i) : i \in BatchStarts}

\* How the race of the gas price check can end: isGasPriceAcceptable answers
\* true or false, or the 5000 ms timer comes first.
GasCheckOutcomes == {"acceptable", "notAcceptable", "timeout"}

\* (GasAcceptable_TimeoutSkips takes a timeout for a refusal.)
GasAcceptable_TimeoutSkips(outcome) == outcome = "acceptable"

\* gasAcceptable, the value of the race: the timer resolves it with true
GasAcceptable(outcome) == IF outcome = "timeout" THEN TRUE ELSE outcome = "acceptable"

ScanRunInit ==
  scanRun = [phase |-> "idle", gasCheck |-> "pending", analysing |-> {}, opportunities |-> <<>>,
             timedOut |-> FALSE, events |-> <<>>, viableOpportunities |-> <<>>,
             historyKey |-> "none"]

\* start(): isRunning = true, then scanForOpportunities() up to its await
\* of the gas price check.
StartScanning ==
  /\ ~isRunning
  /\ scanRun.phase = "idle"
  /\ isRunning' = TRUE
  /\ scanRun' = [scanRun EXCEPT !.phase = "gas"]
  /\ UNCHANGED <<scanInterval, timers, scans, starts, clock>>
  /\ UNCHANGED <<riskVars, nonceVars, quoteVars, evalVars, gasVars, rankVars, screenVars, oppHistoryVars, receiverVars, executionVars, poolVars>>

\* The race of the gas price check resolves.  When gasAcceptable is true
\* findArbitrageOpportunities() is called and runs to its await; otherwise
\* the scan returns.
GasChecked(outcome) ==
  /\ scanRun.phase = "gas"
  /\ scanRun' = IF GasAcceptable(outcome)
                THEN [scanRun EXCEPT !.phase = "discovery", !.gasCheck = outcome,
                                     !.analysing = AnalysesStarted]
                ELSE [scanRun EXCEPT !.phase = "returned", !.gasCheck = outcome]
  /\ UNCHANGED <<scanVars, riskVars, nonceVars, quoteVars, evalVars, gasVars, rankVars, screenVars, oppHistoryVars, receiverVars, executionVars, poolVars>>

\* analyzeTokenPair answers for one pair: an opportunity, which carries the
\* pair's tokens, is pushed to the opportunities array of this
\* findArbitrageOpportunities call.  The analyses go on after the scan
\* timeout.
AnalysisAnswers(pair, outcome) ==
  /\ pair \in scanRun.analysing
  /\ scanRun' = [scanRun EXCEPT
                   !.analysing = @ \ {pair},
                   !.opportunities =
                      IF outcome = NullOpportunity THEN @
                      ELSE Append(@, [netProfit |-> outcome.netProfit,
                                      profitPercent |-> outcome.profitPercent,
                                      pair |-> PairSymbols[pair]])]
  /\ UNCHANGED <<scanVars, riskVars, nonceVars, quoteVars, evalVars, gasVars, rankVars, screenVars, oppHistoryVars, receiverVars, executionVars, poolVars>>

\* scanForOpportunities from the race on, with the race's result: filter,
\* sort, slice, 'opportunities' when the list is not empty, the push of the
\* list to the history under the pair key of its first element (historyKey;
\* the history's length is StoreInHistory's matter), 'scanCompleted'.
ReportScan(opportunities, byTimeout) ==
  LET viableOpportunities == ViableOpportunities(opportunities)
  IN  scanRun' = [scanRun EXCEPT
                    !.phase = "returned",
                    !.timedOut = byTimeout,
                    !.viableOpportunities = viableOpportunities,
                    !.historyKey = IF Len(viableOpportunities) > 0
                                   THEN viableOpportunities[1].pair ELSE @,
                    !.events = @ \o (IF Len(viableOpportunities) > 0
                                     THEN <<"opportunities">> ELSE <<>>)
                                 \o <<"scanCompleted">>]

\* Promise.allSettled(analysisPromises) resolves: every analysis has
\* answered, findArbitrageOpportunities returns its opportunities.
DiscoveryResolves ==
  /\ scanRun.phase = "discovery"
  /\ scanRun.analysing = {}
  /\ ReportScan(scanRun.opportunities, FALSE)
  /\ UNCHANGED <<scanVars, riskVars, nonceVars, quoteVars, evalVars, gasVars, rankVars, screenVars, oppHistoryVars, receiverVars, executionVars, poolVars>>

\* The scan timeout's timer runs first: resolve([]).
ScanTimeoutResolves ==
  /\ scanRun.phase = "discovery"
  /\ scanRun.analysing # {}
  /\ ReportScan(<<>>, TRUE)
  /\ UNCHANGED <<scanVars, riskVars, nonceVars, quoteVars, evalVars, gasVars, rankVars, screenVars, oppHistoryVars, receiverVars, executionVars, poolVars>>

ScanRunNext ==
  \/ StartScanning
  \/ Stop
  \/ \E outcome \in GasCheckOutcomes : GasChecked(outcome)
  \/ \E pair \in TokenPairs, outcome \in AnalysisOutcomes : AnalysisAnswers(pair, outcome)
  \/ DiscoveryResolves
  \/ ScanTimeoutResolves

----------------------------------------------------------------------------
(* ArbitrageEngine: executeArbitrage, and the application's listeners of    *)
(* its events.                                                              *)

\* executeFlashLoanArbitrage(opportunity): its body is a single throw, so
\* the promise it returns is rejected.
ExecuteFlashLoanArbitrage(opportunity) == "rejected"

\* The application's listeners (setupEventListeners): 'tradeExecuted' has
\* one that calls performanceTracker.recordTrade and riskManager.recordTrade
\* with the result; 'tradeFailed' has none.
ListenerRecordsTrade(event) == event = "tradeExecuted"

ExecutionsInit == executions = <<>>

\* executeArbitrage(opportunity) up to its await of analyzeTokenPair
ExecuteArbitrage(opportunity) ==
  /\ Len(executions) < MaxAttempts
  /\ executions' = Append(executions,
                          [pc |-> "validating", opportunity |-> opportunity, successful |-> FALSE,
                           results |-> 0, event |-> "none", recorded |-> FALSE])
  /\ UNCHANGED <<riskVars, nonceVars, scanVars, quoteVars, evalVars, gasVars, rankVars, screenVars, oppHistoryVars, receiverVars, scanRunVars, poolVars>>

\* The catch block: the result with successful: false, 'tradeFailed', return
TradeFailed(attempt) ==
  [attempt EXCEPT !.pc = "returned", !.successful = FALSE, !.results = @ + 1,
                  !.event = "tradeFailed",
                  !.recorded = ListenerRecordsTrade("tradeFailed")]

\* The end of the try block: the result with successful: true, the receipt,
\* 'tradeExecuted', return
TradeExecuted(attempt) ==
  [attempt EXCEPT !.pc = "returned", !.successful = TRUE, !.results = @ + 1,
                  !.event = "tradeExecuted",
                  !.recorded = ListenerRecordsTrade("tradeExecuted")]

\* analyzeTokenPair answers with the current opportunity: the call throws
\* when there is none or it is not viable, and calls
\* executeFlashLoanArbitrage otherwise.
Validated(i, currentOpportunity) ==
  /\ i \in DOMAIN executions
  /\ executions[i].pc = "validating"
  /\ executions' = [executions EXCEPT ![i] =
       IF currentOpportunity = NullOpportunity \/ ~IsOpportunityViable(currentOpportunity)
       THEN TradeFailed(@)
       ELSE [@ EXCEPT !.pc = "executing", !.opportunity = currentOpportunity]]
  /\ UNCHANGED <<riskVars, nonceVars, scanVars, quoteVars, evalVars, gasVars, rankVars, screenVars, oppHistoryVars, receiverVars, scanRunVars, poolVars>>

\* The await of executeFlashLoanArbitrage(currentOpportunity) ends
FlashLoanSettles(i) ==
  /\ i \in DOMAIN executions
  /\ executions[i].pc = "executing"
  /\ executions' = [executions EXCEPT ![i] =
       IF ExecuteFlashLoanArbitrage(@.opportunity) = "rejected"
       THEN TradeFailed(@) ELSE TradeExecuted(@)]
  /\ UNCHANGED <<riskVars, nonceVars, scanVars, quoteVars, evalVars, gasVars, rankVars, screenVars, oppHistoryVars, receiverVars, scanRunVars, poolVars>>

ExecutionNext ==
  \/ \E opportunity \in {ViableOpportunity, ThinOpportunity} : ExecuteArbitrage(opportunity)
  \/ \E i \in 1..MaxAttempts, currentOpportunity \in AnalysisOutcomes :
       Validated(i, currentOpportunity)
  \/ \E i \in 1..MaxAttempts : FlashLoanSettles(i)

----------------------------------------------------------------------------
(* UniswapV3Exchange: getPoolAddress and its cache, for one token pair.     *)
(* A cache key is the pair with a fee tier; the factory knows a pool for    *)
(* two of the three tiers.                                                  *)

FeeTiers == {3000, 500, 10000}      \* sortedFees of getQuoteInternal
Lookups == 1..NumLookups

\* factoryContract.getPool(tokenA, tokenB, fee) when it answers: the pool's
\* address, or the zero address when there is no pool
FactoryGetPool(fee) == IF fee = 10000 THEN "AddressZero" ELSE "pool"

IdleLookup == [pc |-> "idle", fee |-> 3000, result |-> "none", cached |-> FALSE]

PoolsInit ==
  pools = [poolCache |-> [fee \in FeeTiers |-> "none"],
           lookups |-> [c \in Lookups |-> IdleLookup]]

\* getPoolAddress(tokenA, tokenB, fee) up to its return from the cache or
\* its await of the factory call.  hourPassed: more than an hour has passed
\* since the cache was cleared, and the call clears it.
GetPoolAddressBegin(c, fee, hourPassed) ==
  /\ pools.lookups[c].pc # "awaiting"
  /\ LET cache == IF hourPassed THEN [f \in FeeTiers |-> "none"] ELSE pools.poolCache
     IN  pools' = [poolCache |-> cache,
                   lookups |-> [pools.lookups EXCEPT ![c] =
                     IF cache[fee] # "none"
                     THEN [pc |-> "returned", fee |-> fee, result |-> cache[fee], cached |-> TRUE]
                     ELSE [pc |-> "awaiting", fee |-> fee, result |-> "none", cached |-> FALSE]]]
  /\ UNCHANGED <<riskVars, nonceVars, scanVars, quoteVars, evalVars, gasVars, rankVars, screenVars, oppHistoryVars, receiverVars, scanRunVars, executionVars>>

\* The factory call answers before the 2000 ms timer: the answer is cached
\* and returned.
FactoryAnswers(c) ==
  /\ pools.lookups[c].pc = "awaiting"
  /\ LET fee == pools.lookups[c].fee
         poolAddress == FactoryGetPool(fee)
     IN  pools' = [poolCache |-> [pools.poolCache EXCEPT ![fee] = poolAddress],
                   lookups |-> [pools.lookups EXCEPT ![c] =
                     [pc |-> "returned", fee |-> fee, result |-> poolAddress, cached |-> FALSE]]]
  /\ UNCHANGED <<riskVars, nonceVars, scanVars, quoteVars, evalVars, gasVars, rankVars, screenVars, oppHistoryVars, receiverVars, scanRunVars, executionVars>>

\* The factory call fails or the timer comes first (the catch block): the
\* zero address is cached and returned.
FactoryFails(c) ==
  /\ pools.lookups[c].pc = "awaiting"
  /\ LET fee == pools.lookups[c].fee
     IN  pools' = [poolCache |-> [pools.poolCache EXCEPT ![fee] = "AddressZero"],
                   lookups |-> [pools.lookups EXCEPT ![c] =
                     [pc |-> "returned", fee |-> fee, result |-> "AddressZero", cached |-> FALSE]]]
  /\ UNCHANGED <<riskVars, nonceVars, scanVars, quoteVars, evalVars, gasVars, rankVars, screenVars, oppHistoryVars, receiverVars, scanRunVars, executionVars>>

PoolsNext ==
  \/ \E c \in Lookups, fee \in FeeTiers, hourPassed \in BOOLEAN : GetPoolAddressBegin(c, fee, hourPassed)
  \/ \E c \in Lookups : FactoryAnswers(c)
  \/ \E c \in Lookups : FactoryFails(c)

----------------------------------------------------------------------------
(* Specifications *)

Init == RiskInit /\ NonceInit /\ ScanInit /\ QuoteInit /\ EvalInit /\ GasInit /\ RankInit
          /\ ScreenInit /\ OppHistoryInit /\ ReceiversInit /\ ScanRunInit /\ ExecutionsInit /\ PoolsInit
Next == RiskNext
Spec == Init /\ [][Next]_vars
SpecTrades == Init /\ [][TradeNext]_vars
SpecNonce == Init /\ [][NonceNext]_vars
SpecScan == Init /\ [][ScanNext]_vars
SpecQuotes == Init /\ [][QuoteNext]_vars
SpecEval == Init /\ [][EvalNext]_vars
SpecGas == Init /\ [][GasNext]_vars
SpecHistory == Init /\ [][HistoryNext]_vars
SpecRank == Init /\ [][RankNext]_vars
SpecScreen == Init /\ [][ScreenNext]_vars
SpecOppHistory == Init /\ [][OppHistoryNext]_vars
SpecReceivers == Init /\ [][ReceiversNext]_vars
SpecScanRun == Init /\ [][ScanRunNext]_vars
SpecExecution == Init /\ [][ExecutionNext]_vars
SpecPools == Init /\ [][PoolsNext]_vars

----------------------------------------------------------------------------
(* RiskManager: properties *)

InSeq(x, s) == \E i \in 1..Len(s) : s[i] = x

LosingTrade(trade) == trade.successful /\ trade.netProfit < 0

\* The most recent consecutiveLossLimit recorded trades all lost money.
LossLimitRun ==
  /\ Len(tradeHistory) >= Limits.consecutiveLossLimit
  /\ \A i \in (Len(tradeHistory) - Limits.consecutiveLossLimit + 1)..Len(tradeHistory) :
       LosingTrade(tradeHistory[i])

MentionsConsecutiveLosses(reason) ==
  \/ InSeq("Consecutive loss limit reached", reason)
  \/ InSeq("Consecutive loss limit exceeded", reason)

\* The eight checks of evaluateRisk as their descriptions read, the gas check
\* being the comparison of the gas price with gasThreshold.
WithinAllLimits(opp, m, dsv) ==
  /\ CheckDailyLossLimit(m, dsv).passed
  /\ CheckConsecutiveLossLimit(m).passed
  /\ CheckVolatilityLimit(m).passed
  /\ CheckSlippageLimit(opp).passed
  /\ CheckPositionSizeLimit(opp, m).passed
  /\ CheckDrawdownLimit(m).passed
  /\ CheckTradeFrequencyLimit(m).passed
  /\ CheckGasThreshold.passed

\* C1: with consecutiveLossLimit = 5, once recordTrade has recorded 5 losing
\* trades in a row the breaker is tripped with a reason that mentions the
\* consecutive losses, and the evaluateRisk call that follows is denied with
\* the breaker tripped and that reason.
C1_FiveLossesTrip ==
  /\ [][(riskOp' = "recordTrade" /\ LossLimitRun')
          => (circuitBreaker'.isTriggered
              /\ MentionsConsecutiveLosses(circuitBreaker'.reason))]_vars
  /\ [][(riskOp = "recordTrade" /\ LossLimitRun /\ riskOp' = "evaluateRisk")
          => (/\ ~evalResult'.approved
              /\ circuitBreaker'.isTriggered
              /\ MentionsConsecutiveLosses(evalResult'.reason))]_vars

C1_Witness ==
  /\ riskOp = "evaluateRisk"
  /\ LossLimitRun
  /\ Len(tradeHistory) = Limits.consecutiveLossLimit
  /\ circuitBreaker.isTriggered
  /\ MentionsConsecutiveLosses(circuitBreaker.reason)
  /\ ~evalResult.approved
  /\ MentionsConsecutiveLosses(evalResult.reason)

\* C2 (as claimed): an evaluateRisk call made after autoResetTime has passed
\* returns with the breaker not tripped, and the evaluateRisk call after it
\* approves an opportunity that is within all limits.
C2_AutoResetThenApprove ==
  /\ [][(riskOp' = "evaluateRisk" /\ circuitBreaker.isTriggered
           /\ now > circuitBreaker.autoResetTime)
          => ~circuitBreaker'.isTriggered]_vars
  /\ [][(riskOp = "evaluateRisk" /\ InSeq("circuitBreakerReset", emitted)
           /\ riskOp' = "evaluateRisk"
           /\ WithinAllLimits(evalResult'.opportunity, metrics', dailyStartValue')
           /\ FLt(evalResult'.riskScore, FInt(Pct(80))))
          => evalResult'.approved]_vars

\* C3 (as claimed): evaluateRisk approves whenever the breaker is not tripped,
\* all eight checks are within their limits and the score is below 80.
C3_WithinLimitsApproved ==
  (/\ riskOp = "evaluateRisk"
   /\ ~circuitBreaker.isTriggered
   /\ WithinAllLimits(evalResult.opportunity, metrics, dailyStartValue)
   /\ FLt(CalculateOpportunityRisk(evalResult.opportunity, metrics), FInt(Pct(80))))
    => evalResult.approved

\* C6 (as claimed): the breaker goes from tripped to not tripped only in an
\* evaluateRisk call made after autoResetTime has passed.
C6_ResetOnlyByElapsedEvaluate ==
  [][(circuitBreaker.isTriggered /\ ~circuitBreaker'.isTriggered)
       => (riskOp' = "evaluateRisk" /\ now > circuitBreaker.autoResetTime)]_vars

\* C6 (amended): the breaker goes from tripped to not tripped only in an
\* evaluateRisk call made after autoResetTime has passed, or in a
\* forceReset() or resetCircuitBreaker() call.
C6_ResetOnlyByEvaluateOrManual ==
  [][(circuitBreaker.isTriggered /\ ~circuitBreaker'.isTriggered)
       => \/ riskOp' = "evaluateRisk" /\ now > circuitBreaker.autoResetTime
          \/ riskOp' \in {"forceReset", "resetCircuitBreaker"}]_vars

C6_Witness ==
  /\ riskOp = "evaluateRisk"
  /\ InSeq("circuitBreakerReset", emitted)
  /\ ~circuitBreaker.isTriggered

\* C7: while the breaker is tripped and autoResetTime has not passed, every
\* evaluateRisk call is denied with the reason "Circuit breaker active" and
\* leaves the breaker as it was.
C7_TrippedDenies ==
  [][(riskOp' = "evaluateRisk" /\ circuitBreaker.isTriggered
        /\ ~(now > circuitBreaker.autoResetTime))
       => (/\ ~evalResult'.approved
           /\ evalResult'.reason # <<>>
           /\ Head(evalResult'.reason) = "Circuit breaker active"
           /\ circuitBreaker' = circuitBreaker)]_vars

C7_Witness ==
  /\ riskOp = "evaluateRisk"
  /\ circuitBreaker.isTriggered
  /\ now = circuitBreaker.autoResetTime
  /\ ~evalResult.approved
  /\ evalResult.reason # <<>>
  /\ Head(evalResult.reason) = "Circuit breaker active"

ScoreInRange(score) == FLe(FInt(0), score) /\ FLe(score, FInt(Pct(100)))

CriticalCheckFails(m, dsv) ==
  \/ ~CheckDailyLossLimit(m, dsv).passed
  \/ ~CheckConsecutiveLossLimit(m).passed
  \/ ~CheckDrawdownLimit(m).passed

\* C18: in an evaluateRisk call that starts with the breaker not tripped, a
\* failing check gives approved = false, and the call leaves the breaker
\* tripped if and only if one of the critical checks (daily loss, consecutive
\* losses, drawdown) fails.
C18_FailingCheckDenies ==
  [][(riskOp' = "evaluateRisk" /\ ~circuitBreaker.isTriggered)
       => (/\ ~WithinAllLimits(evalResult'.opportunity, metrics', dailyStartValue')
                => ~evalResult'.approved
           /\ circuitBreaker'.isTriggered
                <=> CriticalCheckFails(metrics', dailyStartValue'))]_vars

\* A call that started with the breaker not tripped, found the drawdown at
\* its limit and tripped the breaker.
C18_Witness ==
  /\ riskOp = "evaluateRisk"
  /\ ~InSeq("circuitBreakerReset", emitted)
  /\ InSeq("Drawdown limit exceeded", evalResult.reason)
  /\ ~CheckDrawdownLimit(metrics).passed
  /\ circuitBreaker.isTriggered
  /\ ~evalResult.approved

\* The highest portfolio value reached so far, the start value included.
RECURSIVE RunningPeak(_, _, _)
RunningPeak(history, value, peak) ==
  IF history = <<>> THEN peak
  ELSE LET v == value + Head(history).netProfit
       IN  RunningPeak(Tail(history), v, Max(peak, v))

\* C8 (as claimed): currentDrawdown = (peak - current) / peak * 100, with
\* peak the highest portfolio value reached so far.
C8_DrawdownFromRunningPeak ==
  LET peak == RunningPeak(tradeHistory, InitialPortfolioValue, InitialPortfolioValue)
  IN  metrics.currentDrawdown = Frac((peak - metrics.portfolioValue) * 10000, peak)

----------------------------------------------------------------------------
(* MEVProtection: properties *)

\* C4 (as claimed): two getSecureNonce() calls in progress at once never
\* hand out the same nonce: callers that hold an assigned nonce at the same
\* time hold different ones.
C4_DistinctNonces ==
  \A c1, c2 \in Callers :
    (c1 # c2 /\ callers[c1].pc = "assigned" /\ callers[c2].pc = "assigned")
      => callers[c1].nonce # callers[c2].nonce

----------------------------------------------------------------------------
(* ArbitrageEngine: properties *)

\* C5 (as claimed): at no time are two scanForOpportunities() calls in
\* progress; a timer tick that finds a scan running starts no scan.
C5_SingleScanInFlight == Cardinality(scans) <= 1

----------------------------------------------------------------------------
(* BatchQuoteEngine: properties *)

\* C9: the list getBatchQuotes returns is sorted non-increasing by
\* amountOut, equal amounts included.
C9_SortedByAmountOut ==
  quoteCall = "returned" =>
    \A i, j \in 1..Len(quoteResult) :
      i < j => quoteResult[i].amountOut >= quoteResult[j].amountOut

C9_Witness ==
  /\ quoteCall = "returned"
  /\ Len(quoteResult) = NumVenues
  /\ quoteResult # ValidQuotes(venues, enabledExchanges, 1)
  /\ \E i, j \in 1..Len(quoteResult) :
       i # j /\ quoteResult[i].amountOut = quoteResult[j].amountOut
  /\ \E i, j \in 1..Len(quoteResult) :
       quoteResult[i].amountOut > quoteResult[j].amountOut

\* C10: getBatchQuotes never raises; when every enabled exchange has failed,
\* or the batch timeout has fired, it has returned the empty list.
C10_FailuresGiveEmptyList ==
  /\ quoteCall # "raised"
  /\ (/\ quoteCall = "returned"
      /\ \/ timeoutFired
         \/ \A v \in enabledExchanges : venues[v].status = "failed")
       => quoteResult = <<>>

C10_Witness ==
  /\ quoteCall = "returned"
  /\ ~timeoutFired
  /\ enabledExchanges = Venues
  /\ \A v \in Venues : venues[v].status = "failed"
  /\ quoteResult = <<>>

\* C11 (as claimed): when getBatchQuotes returns, the quote of every
\* exchange that has answered is in the list it returns, whatever the other
\* exchanges did (failed, or not answered yet).
C11_AnsweredQuotesReturned ==
  [][(quoteCall = "pending" /\ quoteCall' = "returned")
       => \A v \in enabledExchanges :
            venues'[v].status = "quoted"
              => InSeq([dex |-> v, amountOut |-> venues'[v].amountOut], quoteResult')]_vars

----------------------------------------------------------------------------
(* performTokenPairAnalysis: properties *)

Emitted == analysis.called /\ analysis.result.kind = "opportunity"

\* The exchanges with a quote in a list
DexesOf(quotes) == {quotes[i].dex : i \in 1..Len(quotes)}

\* C12: every opportunity the analysis returns has profit > 0 and
\* netProfit = profit - gas cost, the gas cost being the calculated total
\* cost or, when the calculation fails, the default cost.
C12_NetIsGrossMinusGas ==
  Emitted =>
    /\ analysis.result.profit > 0
    /\ analysis.result.netProfit = analysis.result.profit - GasCostUsed(analysis.gas)

C12_Witness ==
  /\ Emitted
  /\ ~analysis.gas.ok
  /\ analysis.result.netProfit = analysis.result.profit - DefaultGasCost
  /\ analysis.result.netProfit > 0

\* C13 (as claimed): with forward quotes X: 1000 -> 1020, Y: 1000 -> 995 and
\* reverse quotes X: -> 1000, Y: -> 1035 the analysis returns an opportunity
\* that buys on X and sells on Y with a gross profit of 15 tokens.
C13_ScenarioEmitsOpportunity ==
  (/\ analysis.called
   /\ analysis.forwardQuotes = <<[dex |-> 1, amountOut |-> 1020], [dex |-> 2, amountOut |-> 995]>>
   /\ analysis.reverseQuotes = <<[dex |-> 2, amountOut |-> 1035], [dex |-> 1, amountOut |-> 1000]>>)
    => /\ analysis.result.kind = "opportunity"
       /\ analysis.result.buyDex = 1
       /\ analysis.result.sellDex = 2
       /\ analysis.result.profit = 15 * PriceUnit

\* C14: the analysis returns none when fewer than two distinct exchanges
\* quoted in the two directions together.
C14_OneVenueGivesNone ==
  (/\ analysis.called
   /\ Cardinality(DexesOf(analysis.forwardQuotes) \cup DexesOf(analysis.reverseQuotes)) < 2)
    => analysis.result.kind = "none"

C14_Witness ==
  /\ analysis.called
  /\ Len(analysis.forwardQuotes) = 1
  /\ DexesOf(analysis.reverseQuotes) = DexesOf(analysis.forwardQuotes)
  /\ analysis.reverseQuotes[1].amountOut < analysis.forwardQuotes[1].amountOut
  /\ analysis.result.kind = "none"

\* C15: an opportunity the analysis returns buys and sells on different
\* exchanges; when the best forward quote and the best reverse quote are of
\* one exchange it returns none.
C15_DistinctVenues ==
  /\ Emitted => analysis.result.buyDex # analysis.result.sellDex
  /\ (/\ analysis.called
      /\ ~TooFewQuotes(analysis.forwardQuotes, analysis.reverseQuotes)
      /\ BestQuote(analysis.forwardQuotes, Head(analysis.forwardQuotes)).dex
           = BestQuote(analysis.reverseQuotes, Head(analysis.reverseQuotes)).dex)
       => analysis.result.kind = "none"

C15_Witness ==
  /\ analysis.called
  /\ Len(analysis.forwardQuotes) >= 2
  /\ Len(analysis.reverseQuotes) >= 1
  /\ BestQuote(analysis.forwardQuotes, Head(analysis.forwardQuotes)).dex
       = BestQuote(analysis.reverseQuotes, Head(analysis.reverseQuotes)).dex
  /\ BestQuote(analysis.reverseQuotes, Head(analysis.reverseQuotes)).amountOut
       < BestQuote(analysis.forwardQuotes, Head(analysis.forwardQuotes)).amountOut
  /\ analysis.result.kind = "none"

\* C20 (as claimed): the gas price MEVProtection puts on a transaction is at
\* most 200 gwei, whatever getFeeData() answers and also when it throws.
C20_GasPriceCapped ==
  (gasPricing.op = "addMEVProtection"
     \/ (gasPricing.op = "protectFlashLoanExecution" /\ gasPricing.competing))
    => gasPricing.gasPrice <= Gwei(MaxGasPriceGwei)

\* C20, the part that holds: when getFeeData() answers, the gas price
\* addMEVProtection sets is at most 200 gwei.
C20_CappedWhenFeeDataAnswers ==
  (gasPricing.op = "addMEVProtection" /\ gasPricing.feeData.ok)
    => gasPricing.gasPrice <= Gwei(MaxGasPriceGwei)

\* How many times x occurs in the sequence s
Occurrences(s, x) == Cardinality({i \in DOMAIN s : s[i] = x})

\* C19: a scan emits at most 5 opportunities, in descending order of
\* netProfit, all of them opportunities that passed isOpportunityViable, and
\* no viable opportunity it leaves out has a higher netProfit than one it
\* emits.
C19_TopFiveByNetProfit ==
  ranking.done =>
    LET out == ranking.viableOpportunities
        viable == FilterViable(ranking.opportunities)
    IN  /\ Len(out) <= TopOpportunities
        /\ Len(out) = Min(Len(viable), TopOpportunities)
        /\ ranking.emitted <=> Len(out) > 0
        /\ \A i, j \in DOMAIN out : i < j => out[i].netProfit >= out[j].netProfit
        /\ \A x \in FoundOpportunities : Occurrences(out, x) <= Occurrences(viable, x)
        /\ \A x \in FoundOpportunities :
             Occurrences(out, x) < Occurrences(viable, x)
               => \A i \in DOMAIN out : out[i].netProfit >= x.netProfit

\* More than five viable opportunities found out of order: five are emitted
\* and a viable one with a lower netProfit is left out.
C19_Witness ==
  /\ ranking.done
  /\ Len(ranking.opportunities) = MaxFound
  /\ Len(FilterViable(ranking.opportunities)) > TopOpportunities
  /\ Len(ranking.viableOpportunities) = TopOpportunities
  /\ ranking.opportunities[1].netProfit < ranking.opportunities[2].netProfit
  /\ ranking.viableOpportunities[1].netProfit
       > ranking.viableOpportunities[TopOpportunities].netProfit
  /\ \E i \in DOMAIN ranking.opportunities :
       /\ IsOpportunityViable(ranking.opportunities[i])
       /\ ranking.opportunities[i].netProfit
            < ranking.viableOpportunities[TopOpportunities].netProfit

FailedQuery(r) == r.pool.kind \in {"throws", "null"}

\* C21: when the pending-pool query fails or is not supported,
\* detectSandwichAttack returns isSandwich = false with confidence 0 and
\* raises no error; and whatever the screenings returned, a
\* submitProtectedTransaction call can go ahead.
C21_FailedQueryGivesNoSignal ==
  /\ \A i \in DOMAIN screening.results :
       FailedQuery(screening.results[i])
         => (/\ ~screening.results[i].result.raised
             /\ ~screening.results[i].result.isSandwich
             /\ screening.results[i].result.confidence = 0)
  /\ Len(screening.submissions) < MaxSubmissions
       => \A usePrivateMempool \in BOOLEAN :
            ENABLED SubmitProtectedTransaction(usePrivateMempool)

\* A failed query and a suspicious pool were screened, and a transaction
\* was submitted after them.
C21_Witness ==
  /\ \E i \in DOMAIN screening.results : FailedQuery(screening.results[i])
  /\ \E i \in DOMAIN screening.results : screening.results[i].result.confidence > 0
  /\ Len(screening.submissions) > 0

\* C22: after any sequence of recordTrade calls the trade history holds at
\* most 1000 entries, and they are the trades recorded last, in the order in
\* which they were recorded: each call appends its trade, and evicts the
\* oldest entry when the history is full.
C22_HistoryHoldsLastThousand ==
  /\ [](Len(tradeHistory) <= TradeHistoryCap)
  /\ [][riskOp' = "recordTrade"
          => LET new == tradeHistory'[Len(tradeHistory')]
             IN  /\ new.amount = RecordedSoFar + 1
                 /\ tradeHistory'
                      = IF Len(tradeHistory) < TradeHistoryCap
                        THEN Append(tradeHistory, new)
                        ELSE Append(Tail(tradeHistory), new)]_vars

\* More trades were recorded than the history holds.
C22_Witness ==
  /\ riskOp = "recordTrade"
  /\ RecordedSoFar > TradeHistoryCap + 1
  /\ Len(tradeHistory) = TradeHistoryCap
  /\ tradeHistory[1].amount = RecordedSoFar - TradeHistoryCap + 1

\* C23: after every scan the opportunity history of each pair holds at most
\* 100 entries.
C23_OpportunityHistoryCapped ==
  \A k \in PairKeys : opportunityHistory[k].length <= OpportunityHistoryCap

\* One pair's history is full (100 entries) and the other has just been cut
\* back by the splice, from 105 entries to 55.
C23_Witness ==
  \E k1, k2 \in PairKeys :
    /\ k1 # k2
    /\ opportunityHistory[k1].length = OpportunityHistoryCap
    /\ opportunityHistory[k2].spliced
    /\ opportunityHistory[k2].length
         = OpportunityHistoryCap + TopOpportunities - SpliceCount

\* What estimateSwapGas answers on each exchange, carried by the quote as
\* gasEstimate
GasEstimateOf(dex) == CASE dex = 1 -> 150000 [] dex = 2 -> 250000 [] OTHER -> 200000

\* C24 (as claimed): in the list getBatchQuotes returns, of two quotes with
\* equal amountOut the one with the lower gas estimate comes first.
C24_TiesByLowerGas ==
  quoteCall = "returned"
    => \A i, j \in DOMAIN quoteResult :
         (i < j /\ quoteResult[i].amountOut = quoteResult[j].amountOut)
           => GasEstimateOf(quoteResult[i].dex) <= GasEstimateOf(quoteResult[j].dex)

\* C25 (as claimed): a step in which a receiver writes into what it was
\* given, by a getter or in an event payload, leaves the RiskManager's
\* metrics and circuit breaker state as they were.
C25_ReceiversCannotWrite ==
  [][receivers'.writes > receivers.writes
       => (metrics' = metrics /\ circuitBreaker' = circuitBreaker)]_vars

\* C26 (as claimed): a recordTrade call that finds the breaker not tripped
\* and leaves it tripped has, once the trade is applied, a critical limit
\* breached: the daily loss, the consecutive losses or the drawdown is at or
\* over its limit.
C26_TripsOnlyOnBreach ==
  [][(riskOp' = "recordTrade" /\ ~circuitBreaker.isTriggered /\ circuitBreaker'.isTriggered)
       => CriticalCheckFails(metrics', dailyStartValue')]_vars

\* C27 (as claimed): at any time of a scan at most maxConcurrency (3) pair
\* analyses are in progress.
C27_AtMostThreeAnalyses == Cardinality(scanRun.analysing) <= MaxConcurrency

C29_StoppedScanEmitsNothing ==
  [][(~isRunning /\ scanRun.phase \in {"gas", "discovery"})
       => ~(\E i \in DOMAIN scanRun'.events : scanRun'.events[i] = "opportunities")]_vars

\* C30 (as claimed): an executeArbitrage call that has returned has made
\* exactly one TradeResult, and riskManager.recordTrade has been called with
\* it, whether the attempt succeeded or failed.
C30_EveryResultRecorded ==
  \A i \in DOMAIN executions :
    executions[i].pc = "returned"
      => (executions[i].results = 1 /\ executions[i].recorded)

\* C31 (as claimed): the daily figures are reset by an evaluateRisk or a
\* recordTrade call, the first of the new day, and by nothing else: a step
\* that moves dailyResetTime or sets the day's baseline is one of these calls.
C31_ResetOnlyByCalls ==
  [][(dailyResetTime' # dailyResetTime \/ InSeq("dailyReset", emitted'))
       => riskOp' \in {"evaluateRisk", "recordTrade"}]_vars

\* C32: a scan whose gas price check timed out goes on to the discovery (it
\* is in it, or has reported its result), and a scan that returned without
\* discovery is one whose check answered 'not acceptable'.
C32_GasTimeoutProceeds ==
  /\ scanRun.gasCheck = "timeout"
       => (scanRun.phase = "discovery" \/ InSeq("scanCompleted", scanRun.events))
  /\ (scanRun.phase = "returned" /\ ~InSeq("scanCompleted", scanRun.events))
       => scanRun.gasCheck = "notAcceptable"

\* The check has timed out and the six analyses are running.
C32_Witness ==
  /\ scanRun.gasCheck = "timeout"
  /\ scanRun.phase = "discovery"
  /\ scanRun.analysing = TokenPairs

\* C33 (as claimed): no step of a lookup replaces a pool's address in the
\* cache by the zero address: a pool one lookup has resolved is not left
\* cached as absent by another.
C33_ResolvedPoolStaysCached ==
  [][\A fee \in FeeTiers :
       pools.poolCache[fee] = "pool" => pools'.poolCache[fee] # "AddressZero"]_vars

\* C34 (as claimed): a lookup that is answered from the cache with the zero
\* address is a lookup of a fee tier that has no pool: a failed lookup does
\* not make later lookups take the pool for absent.
C34_FailureNotTakenForAbsence ==
  \A c \in Lookups :
    (pools.lookups[c].cached /\ pools.lookups[c].result = "AddressZero")
      => FactoryGetPool(pools.lookups[c].fee) = "AddressZero"

\* C36 (as claimed): a screening that finds more than two similar pending
\* transactions and a pending transaction with an abnormally high gas price
\* answers isSandwich = true.
C36_BothHeuristicsFlag ==
  \A i \in DOMAIN screening.results :
    LET pool == screening.results[i].pool
    IN  (pool.kind = "content" /\ pool.similar > SimilarTxThreshold /\ pool.highGas)
          => screening.results[i].result.isSandwich

C37_ProfitsLeaveNoDrawdown ==
  [][(riskOp' = "recordTrade"
        /\ \A i \in DOMAIN tradeHistory' : tradeHistory'[i].netProfit > 0)
       => (metrics'.currentDrawdown.n = 0 /\ ~circuitBreaker'.isTriggered)]_vars

\* C38 (as claimed): at most one interval timer is active, and none is once
\* isRunning is false and no start() call is still awaiting its initial
\* scan.
C38_AtMostOneTimer ==
  /\ Cardinality(timers) <= 1
  /\ (~isRunning /\ \A s \in scans : s.origin # "start") => timers = {}

\* C39 (as claimed): a recordTrade call, or an evaluateRisk call made before
\* autoResetTime has passed, that finds the breaker tripped leaves its
\* reason, triggeredAt and autoResetTime as they are.
C39_TrippedBreakerKeepsItsTrip ==
  [][(/\ circuitBreaker.isTriggered
      /\ \/ riskOp' = "recordTrade"
         \/ (riskOp' = "evaluateRisk" /\ ~ShouldAutoReset(circuitBreaker, now)))
       => circuitBreaker' = circuitBreaker]_vars

\* C40 (as claimed): every opportunity a scan stores in the history under a
\* pair key is an opportunity of that pair.
C40_HistoryKeyMatchesPair ==
  scanRun.historyKey # "none"
    => \A i \in DOMAIN scanRun.viableOpportunities :
         scanRun.viableOpportunities[i].pair = scanRun.historyKey

====
